---- MODULE Spec2Model ----
(***************************************************************************)
(* Trojan Defender: multi-engine scan orchestration (scanner.tasks,        *)
(* scanner.utils), the threat-level aggregation signal (scanner.signals),  *)
(* the scan-status WebSocket consumer (scanner.consumers), the daily       *)
(* threat counters (threatmap.signals) and the AbuseIPDB blacklist         *)
(* ingestion (threat_intelligence.external_api).                           *)
(* The second half covers the scan API (scanner.views), the rate limit     *)
(* and brute-force middleware (trojan_defender), the engines' retry loops, *)
(* the general WebSocket consumer, the completion notifications, the       *)
(* threat-data scheduler and process_scan_results_to_threats.              *)
(*                                                                         *)
(* One ScanResult row is followed through the Celery task scan_file and    *)
(* through ScanThreat creations.  Python values that the code passes       *)
(* around (result dicts, threat lists) are modelled as tagged records so   *)
(* that len(), iteration and item access behave as they do in Python.      *)
(***************************************************************************)
EXTENDS Integers, Sequences, FiniteSets, Bags, TLC

VARIABLES
    status,              \* ScanResult.status as stored in the database
    threat_level,        \* ScanResult.threat_level as stored in the database
    scan_threats,        \* ScanThreat rows of the scan (a bag of rows)
    pc,                  \* position of the scan_file task for this scan
    retries,             \* self.request.retries of the current delivery
    attempts,            \* number of executions of scan_file so far
    countdown,           \* countdown of the last scheduled retry (0: none)
    mem_threat_level,    \* threat_level of the task's in-memory scan_result
    mem_error_message,   \* error_message attribute of the in-memory scan_result
    engines_invoked,     \* engines called so far by the current run of scan_file
    scan_results,        \* scan_results dict of the last run that got that far
    vt_returned,         \* what scan_with_virustotal returned in that run
    file_exists,         \* os.path.exists(storage_path)
    VIRUSTOTAL_ENABLED,  \* settings.VIRUSTOTAL_ENABLED
    ws,                  \* the /ws/scan-status/ connection and its channel-layer groups
    v_args,              \* arguments of the verdict functions (pure-function runs)
    v_out,               \* results of the verdict functions (pure-function runs)
    tm_events,           \* threatmap ThreatEvent rows
    tm_stats,            \* GlobalThreatStats rows, by date
    tm_handler,          \* post_save handlers of ThreatEvent in flight, by process
    tm_today,            \* timezone.now().date()
    ti_rows,             \* ThreatIntelligence rows, by ip_address
    ti_events,           \* threat_intelligence ThreatEvent rows
    ti_run,              \* the blacklist ingestion run in progress
    api_scans,           \* ScanResult rows seen by the REST API, by id
    api_response,        \* the last response of the scan REST API
    rl_cache,            \* fixed-window counters in the cache, by client and window
    rl_passed,           \* requests handed to the view, by client and window
    rl_req,              \* requests inside RateLimitMiddleware, by thread
    rl_clock,            \* int(time.time() / period) for the auth rule
    rl_posts,            \* POST requests to /api/auth/ received so far
    st_rows,             \* severities of the ScanThreat rows created concurrently
    st_level,            \* ScanResult.threat_level in the database (concurrent runs)
    st_handler,          \* post_save handlers of ScanThreat in flight, by process
    rt_pc,               \* the local retry loop a scan is in
    rt_loops,            \* attempts, sleeps and outcome of each local retry loop
    bf_cache,            \* failed_login_attempts_<ip> and blocked_ip_<ip> in the cache
    bf_req,              \* login requests inside BruteForceProtectionMiddleware, by thread
    bf_failed,           \* 401 responses for the IP since the last success or expiry
    bf_logins,           \* login requests received from the IP so far
    gws,                 \* the /ws/ connection and its channel-layer groups
    nt_scan,             \* status, threat_level and user setting of a notified scan
    nt_rows,             \* severities of that scan's ScanThreat rows
    nt_notifications,    \* threat Notification rows created for the scan's owner
    nt_saves,            \* task runs and API updates of that scan so far
    sc_now,              \* timezone.now(), in seconds since the scheduler was built
    sc_last_update,      \* ThreatDataScheduler.last_update (-1: None)
    sc_call,             \* the call of update_threat_data in progress or last returned
    sc_stats,            \* calls made and updates that succeeded so far
    ps_events,           \* number of ThreatEvent rows per ScanResult
    ps_run               \* runs of process_scan_results_to_threats, by worker

taskVars == <<status, threat_level, scan_threats, pc, retries, attempts,
              countdown, mem_threat_level, mem_error_message, engines_invoked,
              scan_results, vt_returned, file_exists, VIRUSTOTAL_ENABLED>>

verdictVars == <<v_args, v_out>>

threatmapVars == <<tm_events, tm_stats, tm_handler, tm_today>>

ingestVars == <<ti_rows, ti_events, ti_run>>

apiVars == <<api_scans, api_response>>

\* Everything outside the subsystems of the second half of the module.
coreVars == <<taskVars, ws, verdictVars, threatmapVars, ingestVars>>

rateLimitVars == <<rl_cache, rl_passed, rl_req, rl_clock, rl_posts>>

scanThreatVars == <<st_rows, st_level, st_handler>>

retryVars == <<rt_pc, rt_loops>>

bruteForceVars == <<bf_cache, bf_req, bf_failed, bf_logins>>

generalWsVars == <<gws>>

notifyVars == <<nt_scan, nt_rows, nt_notifications, nt_saves>>

schedulerVars == <<sc_now, sc_last_update, sc_call, sc_stats>>

processScanVars == <<ps_events, ps_run>>

webVars ==
    <<apiVars, rateLimitVars, scanThreatVars, retryVars, bruteForceVars, generalWsVars, notifyVars, schedulerVars, processScanVars>>

\* What the actions of one subsystem leave alone.
apiFrame ==
    <<coreVars, rateLimitVars, scanThreatVars, retryVars, bruteForceVars, generalWsVars, notifyVars, schedulerVars, processScanVars>>

rateLimitFrame ==
    <<coreVars, apiVars, scanThreatVars, retryVars, bruteForceVars, generalWsVars, notifyVars, schedulerVars, processScanVars>>

scanThreatFrame ==
    <<coreVars, apiVars, rateLimitVars, retryVars, bruteForceVars, generalWsVars, notifyVars, schedulerVars, processScanVars>>

retryFrame ==
    <<coreVars, apiVars, rateLimitVars, scanThreatVars, bruteForceVars, generalWsVars, notifyVars, schedulerVars, processScanVars>>

bruteForceFrame ==
    <<coreVars, apiVars, rateLimitVars, scanThreatVars, retryVars, generalWsVars, notifyVars, schedulerVars, processScanVars>>

generalWsFrame ==
    <<coreVars, apiVars, rateLimitVars, scanThreatVars, retryVars, bruteForceVars, notifyVars, schedulerVars, processScanVars>>

notifyFrame ==
    <<coreVars, apiVars, rateLimitVars, scanThreatVars, retryVars, bruteForceVars, generalWsVars, schedulerVars, processScanVars>>

schedulerFrame ==
    <<coreVars, apiVars, rateLimitVars, scanThreatVars, retryVars, bruteForceVars, generalWsVars, notifyVars, processScanVars>>

processScanFrame ==
    <<coreVars, apiVars, rateLimitVars, scanThreatVars, retryVars, bruteForceVars, generalWsVars, notifyVars, schedulerVars>>

vars == <<coreVars, webVars>>

----------------------------------------------------------------------------
(* Bounds *)

\* ScanThreat rows created for the scan.
MaxThreatRows == 2

\* Entries of the dict returned by cd.scan_file.
MaxClamEntries == 1

\* Matches returned by compiled_rules.match.
MaxYaraMatches == 1

\* Threats returned by VirusTotal.
MaxVTThreats == 1

\* Threats per engine in the pure-function runs.
MaxArgThreats == 2

\* Subscribe messages received on the WebSocket connection.
MaxRequests == 2

\* ThreatEvent rows created on the threat map.
MaxEvents == 2

\* Processes creating ThreatEvent rows at the same time.
NumProcs == 2

\* Dates the model runs through.
MaxDays == 2

\* Entries of a fetched blacklist.
MaxItems == 2

\* ScanResult rows created through the REST API.
MaxScans == 3

\* POST requests to /api/auth/ the model follows.
MaxPosts == 6

\* Threads of the server process handling requests at the same time.
NumThreads == 2

\* Fixed windows of the auth rule the clock runs through.
MaxWindows == 2

\* Login requests of one IP address the model follows.
MaxLogins == 7

\* Updates of a ScanResult through the REST API.
MaxUpdates == 2

\* Steps of the clock of the scheduler.
MaxTicks == 8

\* Calls of update_threat_data.
MaxCalls == 4

\* ScanResults of the last hour with threats and a level of medium or more.
MaxRecentScans == 2


----------------------------------------------------------------------------
(* Model choices of scanner.models *)

ThreatLevel == {"clean", "low", "medium", "high", "critical"}

ScanStatus == {"pending", "scanning", "completed", "failed"}

\* Columns of ScanThreat plus the properties attached to the class; these are
\* the keyword arguments Model.__init__ accepts.
ScanThreatKwargs ==
    {"id", "scan_result", "name", "threat_type", "description", "location",
     "detection_engine", "detection_rule", "severity",
     "threat_name", "scan", "engine"}

----------------------------------------------------------------------------
(* Python values *)

\* Sentinel results for an exception leaving an expression.
AttributeError == "AttributeError"
TypeError == "TypeError"

\* A threat dict as built by the engines.
Threat(engine, severity) ==
    [detection_engine |-> engine, severity |-> severity]

\* An engine result dict {'status': ..., 'message': ..., 'threats': [...]}.
ResultDict(st, threats) ==
    [py |-> "dict", keys |-> <<"status", "message", "threats">>,
     status |-> st, threats |-> threats, items |-> <<>>]

\* The initial entry {'status': 'skipped', 'threats': []} (no message key).
SkippedDict ==
    [py |-> "dict", keys |-> <<"status", "threats">>,
     status |-> "skipped", threats |-> <<>>, items |-> <<>>]

\* A Python list of threat dicts.
PyList(items) ==
    [py |-> "list", keys |-> <<>>, status |-> "", threats |-> <<>>,
     items |-> items]

\* len(v): number of elements of a list, number of keys of a dict.
PyLen(v) == IF v.py = "list" THEN Len(v.items) ELSE Len(v.keys)

\* v.get('threats', []) / v.get('threats') on a dict.
GetThreats(v) == v.threats

\* v['status']: a list cannot be indexed by a string.
GetItemStatus(v) == IF v.py = "list" THEN TypeError ELSE v.status

\* any(threat.get('severity') == 'high' for threat in v): iterating a dict
\* yields its keys, which are str and have no .get; iterating a list yields
\* the threat dicts.
AnySeverityHigh(v) ==
    IF v.py = "dict"
    THEN IF Len(v.keys) > 0 THEN AttributeError ELSE "False"
    ELSE IF \E i \in 1..Len(v.items) : v.items[i].severity = "high"
         THEN "True" ELSE "False"

\* sum(1 for threat in seq if threat.get('severity') == 'high') on a list of
\* threat dicts.
CountHigh(seq) == Cardinality({i \in 1..Len(seq) : seq[i].severity = "high"})

SeqsUpTo(S, n) == UNION {[1..k -> S] : k \in 0..n}

----------------------------------------------------------------------------
(* scanner.utils: the engines *)

\* Raw outcomes of the ClamAV daemon: the connection could not be made in
\* three attempts, the scan raised, cd.scan_file returned None, or it
\* returned a dict whose values are ('FOUND', name) / ('ERROR', reason).
ClamRawUpTo(n) ==
    {[kind |-> k, entries |-> <<>>] : k \in {"unavailable", "exception", "none"}}
    \cup {[kind |-> "result", entries |-> e] :
             e \in SeqsUpTo({"FOUND", "ERROR"}, n) \ {<<>>}}

ClamRaw == ClamRawUpTo(MaxClamEntries)

\* scan_with_clamav reporting infected only for more than one threat.
scan_with_clamav_single_clean(raw) ==
    IF raw.kind \in {"unavailable", "exception"}
    THEN ResultDict("error", <<>>)
    ELSE IF raw.kind = "none"
    THEN ResultDict("clean", <<>>)
    ELSE LET found == SelectSeq(raw.entries, LAMBDA e : e = "FOUND")
             threats == [i \in 1..Len(found) |-> Threat("ClamAV", "high")]
         IN  ResultDict(IF Len(threats) > 1 THEN "infected" ELSE "clean", threats)

scan_with_clamav(raw) ==
    IF raw.kind \in {"unavailable", "exception"}
    THEN ResultDict("error", <<>>)
    ELSE IF raw.kind = "none"
    THEN ResultDict("clean", <<>>)
    ELSE LET found == SelectSeq(raw.entries, LAMBDA e : e = "FOUND")
             threats == [i \in 1..Len(found) |-> Threat("ClamAV", "high")]
         IN  ResultDict(IF threats # <<>> THEN "infected" ELSE "clean", threats)

\* tag.lower()
Lower(tag) == IF tag = "Trojan" THEN "trojan" ELSE tag

\* Tag sets of the matching rules.
YaraTagSets == {{"packer"}, {"info"}, {"Trojan", "info"}}

\* Severity of a YARA match from the tags of its rule.
YaraSeverity(tags) ==
    IF \E t \in tags : Lower(t) \in {"critical", "high", "malware", "trojan", "virus"}
    THEN "high"
    ELSE IF \E t \in tags : Lower(t) \in {"low", "info", "suspicious"}
    THEN "low"
    ELSE "medium"

\* Raw outcomes of the YARA engine: compilation raised three times, no rules
\* compiled, the file is too large, the match timed out or failed, or a
\* list of matches (each given by the tags of its rule).
YaraRawUpTo(n) ==
    {[kind |-> k, matches |-> <<>>] :
        k \in {"compile_failed", "no_rules", "too_large", "match_error"}}
    \cup {[kind |-> "matches", matches |-> m] : m \in SeqsUpTo(YaraTagSets, n)}

YaraRaw == YaraRawUpTo(MaxYaraMatches)

\* Keyword arguments of the Threat.objects.create call in scan_with_yara.
YaraCreateKwargs ==
    {"name", "threat_type", "description", "severity", "detection_engine",
     "detection_rule", "file_path", "metadata"}

\* Model.objects.create(**kwargs) inside try/except Exception: a keyword that
\* is neither a field nor a property raises TypeError, a row without its
\* scan_result violates NOT NULL; either way no row is inserted.
ThreatObjectsCreate(rows, kwargs, row) ==
    IF ~(kwargs \subseteq ScanThreatKwargs) THEN rows
    ELSE IF kwargs \cap {"scan_result", "scan"} = {} THEN rows
    ELSE rows (+) SetToBag({row})

RECURSIVE CreateThreatEntries(_, _)
\* The loop "for threat_data in threats: Threat.objects.create(...)".
CreateThreatEntries(rows, threats) ==
    IF threats = <<>> THEN rows
    ELSE CreateThreatEntries(
             ThreatObjectsCreate(rows, YaraCreateKwargs, Head(threats)),
             Tail(threats))

scan_with_yara(raw) ==
    IF raw.kind \in {"compile_failed", "match_error"}
    THEN ResultDict("error", <<>>)
    ELSE IF raw.kind = "no_rules"
    THEN ResultDict("clean", <<>>)
    ELSE IF raw.kind = "too_large"
    THEN ResultDict("skipped", <<>>)
    ELSE LET threats == [i \in 1..Len(raw.matches) |->
                            Threat("YARA", YaraSeverity(raw.matches[i]))]
         IN  ResultDict(IF threats # <<>> THEN "infected" ELSE "clean", threats)

\* Threats parsed from a VirusTotal report: malicious -> high, suspicious ->
\* medium.
VTThreats == {Threat("VirusTotal", s) : s \in {"high", "medium"}}

VTRawUpTo(n) ==
    {[kind |-> k, threats |-> <<>>] : k \in {"error", "pending", "exception"}}
    \cup {[kind |-> "completed", threats |-> t] : t \in SeqsUpTo(VTThreats, n)}

VTRaw == VTRawUpTo(MaxVTThreats)

\* Returns a list of threats, never a result dict.
scan_with_virustotal(raw) ==
    IF raw.kind \in {"error", "pending", "exception"}
    THEN PyList(<<>>)
    ELSE PyList(raw.threats)

----------------------------------------------------------------------------
(* Combining the verdicts *)

\* determine_threat_level without the check for errors.
determine_threat_level_no_error_check(clamav_result, yara_result) ==
    LET yara_threats == Len(GetThreats(yara_result))
    IN  IF clamav_result.status = "infected"
        THEN "high"
        ELSE IF yara_result.status = "suspicious"
        THEN IF CountHigh(GetThreats(yara_result)) > 0 THEN "high"
             ELSE IF yara_threats >= 3 THEN "medium"
             ELSE "low"
        ELSE "clean"

determine_threat_level(clamav_result, yara_result) ==
    LET yara_threats == Len(GetThreats(yara_result))
    IN  IF clamav_result.status = "error" /\ yara_result.status = "error"
        THEN "unknown"
        ELSE IF clamav_result.status = "infected"
        THEN "high"
        ELSE IF yara_result.status = "suspicious"
        THEN IF CountHigh(GetThreats(yara_result)) > 0 THEN "high"
             ELSE IF yara_threats >= 3 THEN "medium"
             ELSE "low"
        ELSE "clean"

\* determine_threat_level_with_virustotal with the thresholds one too low.
determine_threat_level_with_virustotal_low_thresholds(clamav_result, yara_result, virustotal_threats) ==
    LET clamav_threats == Len(GetThreats(clamav_result))
        yara_threats == Len(GetThreats(yara_result))
        vt_threats == PyLen(virustotal_threats)
        total_detections == clamav_threats + yara_threats + vt_threats
        high_severity_count ==
            CountHigh(GetThreats(yara_result)) + CountHigh(virustotal_threats.items)
    IN  IF /\ clamav_result.status = "error"
           /\ yara_result.status = "error"
           /\ vt_threats = 0
        THEN "unknown"
        ELSE IF clamav_result.status = "infected"
        THEN "high"
        ELSE IF AnySeverityHigh(virustotal_threats) = AttributeError
        THEN AttributeError
        ELSE IF AnySeverityHigh(virustotal_threats) = "True"
        THEN "high"
        ELSE IF total_detections >= 2
        THEN "high"
        ELSE IF total_detections >= 1
        THEN IF high_severity_count > 0 THEN "high"
             ELSE IF total_detections >= 1 THEN "medium"
             ELSE "low"
        ELSE "clean"

determine_threat_level_with_virustotal(clamav_result, yara_result, virustotal_threats) ==
    LET clamav_threats == Len(GetThreats(clamav_result))
        yara_threats == Len(GetThreats(yara_result))
        vt_threats == PyLen(virustotal_threats)
        total_detections == clamav_threats + yara_threats + vt_threats
        high_severity_count ==
            CountHigh(GetThreats(yara_result)) + CountHigh(virustotal_threats.items)
    IN  IF /\ clamav_result.status = "error"
           /\ yara_result.status = "error"
           /\ vt_threats = 0
        THEN "unknown"
        ELSE IF clamav_result.status = "infected"
        THEN "high"
        ELSE IF AnySeverityHigh(virustotal_threats) = AttributeError
        THEN AttributeError
        ELSE IF AnySeverityHigh(virustotal_threats) = "True"
        THEN "high"
        ELSE IF total_detections >= 3
        THEN "high"
        ELSE IF total_detections >= 1
        THEN IF high_severity_count > 0 THEN "high"
             ELSE IF total_detections >= 2 THEN "medium"
             ELSE "low"
        ELSE "clean"

\* scan_file, "Determine overall threat level": the call wrapped in
\* try/except Exception, which falls back to 'unknown'.
OverallThreatLevel(clamav_result, yara_result, virustotal_result) ==
    LET level == determine_threat_level_with_virustotal(
                     clamav_result, yara_result, virustotal_result)
    IN  IF level = AttributeError THEN "unknown" ELSE level

\* scan_file, "VirusTotal scan with error handling (if enabled)": the list
\* returned by scan_with_virustotal is indexed with ['status'], which raises
\* and is recorded as an engine error.
VirusTotalEntry(enabled, raw) ==
    IF ~enabled THEN SkippedDict
    ELSE LET virustotal_result == scan_with_virustotal(raw)
         IN  IF GetItemStatus(virustotal_result) = TypeError
             THEN ResultDict("error", <<>>)
             ELSE virustotal_result

\* scan_file, "Collect all threats".
AllThreats(results) ==
    GetThreats(results.clamav) \o GetThreats(results.yara)
        \o GetThreats(results.virustotal)

----------------------------------------------------------------------------
(* scanner.signals: threat-level aggregation *)

\* [threat.severity for threat in scan_result.threats.all()]
Severities(rows) == {row.severity : row \in BagToSet(rows)}

\* The handler with the HIGH branch not excluding a level of critical.
update_scan_result_threat_level_high_unguarded(level, severities) ==
    IF "critical" \in severities /\ level # "critical"
    THEN "critical"
    ELSE IF "high" \in severities /\ level # "high"
    THEN "high"
    ELSE IF "medium" \in severities /\ level \notin {"critical", "high", "medium"}
    THEN "medium"
    ELSE IF level = "clean"
    THEN "low"
    ELSE level

\* post_save handler of ScanThreat (created=True): the new threat_level of
\* the scan, given its current one and the severities of all its threats.
update_scan_result_threat_level(level, severities) ==
    IF "critical" \in severities /\ level # "critical"
    THEN "critical"
    ELSE IF "high" \in severities /\ level \notin {"critical", "high"}
    THEN "high"
    ELSE IF "medium" \in severities /\ level \notin {"critical", "high", "medium"}
    THEN "medium"
    ELSE IF level = "clean"
    THEN "low"
    ELSE level

----------------------------------------------------------------------------
(* threatmap.signals: the daily counters of GlobalThreatStats *)

\* ThreatEvent.ThreatType and ThreatEvent.ThreatSeverity.
ThreatType ==
    {"malware", "virus", "ransomware", "trojan", "spyware", "adware", "worm",
     "rootkit", "backdoor", "exploit", "other"}

ThreatSeverity == {"low", "medium", "high", "critical"}

\* Countries of the events created in the model ('' is the blank default).
Countries == {"", "US"}

\* The events created in the model.
EventInputs ==
    {[threat_type |-> "malware", severity |-> "low", country |-> "US"],
     [threat_type |-> "other", severity |-> "critical", country |-> ""]}

Days == 1..MaxDays

Procs == 1..NumProcs

NoRow == [exists |-> FALSE]

\* GlobalThreatStats(date=...) with the field defaults.
NewStatsRow ==
    [exists |-> TRUE,
     total_threats |-> 0,
     type_count |-> [t \in ThreatType |-> 0],
     severity_count |-> [s \in ThreatSeverity |-> 0],
     country_distribution |-> [c \in Countries \ {""} |-> 0]]

IdleHandler == [pc |-> "idle", instance |-> <<>>, date |-> 0, stats |-> NoRow]

\* The counter field the handler's if/elif chain picks for a threat type.
TypeCounter(threat_type) ==
    IF threat_type \in ThreatType \ {"other"} THEN threat_type ELSE "other"

\* The handler's in-memory update of the row it loaded.
IncrementedStats(row, instance) ==
    [row EXCEPT
        !.total_threats = @ + 1,
        !.type_count[TypeCounter(instance.threat_type)] = @ + 1,
        !.severity_count =
            IF instance.severity \in ThreatSeverity
            THEN [@ EXCEPT ![instance.severity] = @ + 1] ELSE @,
        !.country_distribution =
            IF instance.country # ""
            THEN [@ EXCEPT ![instance.country] = @ + 1] ELSE @]

\* No threatmap activity.
IdleThreatMap ==
    /\ tm_events = <<>>
    /\ tm_stats = [d \in Days |-> NoRow]
    /\ tm_handler = [p \in Procs |-> IdleHandler]
    /\ tm_today = 1

\* ThreatEvent.objects.create(...) in process p: the row is inserted with
\* timestamp = now and post_save starts in the same process.
ThreatEventCreate(p, event) ==
    /\ tm_handler[p].pc = "idle"
    /\ Len(tm_events) < MaxEvents
    /\ tm_events' = Append(tm_events,
                           [threat_type |-> event.threat_type,
                            severity |-> event.severity,
                            country |-> event.country,
                            day |-> tm_today])
    /\ tm_handler' = [tm_handler EXCEPT ![p] =
                         [IdleHandler EXCEPT !.pc = "created", !.instance = event]]
    /\ UNCHANGED <<tm_stats, tm_today, taskVars, ws, verdictVars, ingestVars, webVars>>

\* update_global_threat_stats, "Get or create stats for today": the row of
\* timezone.now().date() is read, or inserted with zero counters.
handler_get_or_create(p) ==
    /\ tm_handler[p].pc = "created"
    /\ LET row == IF tm_stats[tm_today].exists THEN tm_stats[tm_today]
                  ELSE NewStatsRow
       IN  /\ tm_stats' = [tm_stats EXCEPT ![tm_today] = row]
           /\ tm_handler' = [tm_handler EXCEPT ![p] =
                                [@ EXCEPT !.pc = "loaded", !.date = tm_today,
                                          !.stats = row]]
    /\ UNCHANGED <<tm_events, tm_today, taskVars, ws, verdictVars, ingestVars, webVars>>

\* stats.save() writing the row read earlier with one more on each counter
\* of the event.
handler_save_atomic_increment(p) ==
    /\ tm_handler[p].pc = "loaded"
    /\ tm_stats' = [tm_stats EXCEPT ![tm_handler[p].date] =
                       IncrementedStats(tm_stats[tm_handler[p].date],
                                        tm_handler[p].instance)]
    /\ tm_handler' = [tm_handler EXCEPT ![p] = IdleHandler]
    /\ UNCHANGED <<tm_events, tm_today, taskVars, ws, verdictVars, ingestVars, webVars>>

\* update_global_threat_stats, from the increments to stats.save(): every
\* field of the row is written from the in-memory copy.
handler_save(p) ==
    /\ tm_handler[p].pc = "loaded"
    /\ tm_stats' = [tm_stats EXCEPT ![tm_handler[p].date] =
                       IncrementedStats(tm_handler[p].stats,
                                        tm_handler[p].instance)]
    /\ tm_handler' = [tm_handler EXCEPT ![p] = IdleHandler]
    /\ UNCHANGED <<tm_events, tm_today, taskVars, ws, verdictVars, ingestVars, webVars>>

\* EventsOf(d): the ThreatEvent rows whose timestamp falls on date d.
EventsOf(d) == SelectSeq(tm_events, LAMBDA e : e.day = d)

\* The periodic task update_global_threat_stats of threatmap.tasks: today's
\* row is rewritten with counts taken from today's events.
recount_global_threat_stats ==
    /\ tm_events # <<>>
    /\ LET today_threats == EventsOf(tm_today)
       IN  tm_stats' = [tm_stats EXCEPT ![tm_today] =
             [exists |-> TRUE,
              total_threats |-> Len(today_threats),
              type_count |-> [t \in ThreatType |->
                  Len(SelectSeq(today_threats, LAMBDA e : e.threat_type = t))],
              severity_count |-> [sv \in ThreatSeverity |->
                  Len(SelectSeq(today_threats, LAMBDA e : e.severity = sv))],
              country_distribution |-> [c \in Countries \ {""} |->
                  Len(SelectSeq(today_threats, LAMBDA e : e.country = c))]]]
    /\ UNCHANGED <<tm_events, tm_handler, tm_today, taskVars, ws, verdictVars,
                   ingestVars, webVars>>

\* The date changes.
midnight ==
    /\ tm_today < MaxDays
    /\ tm_today' = tm_today + 1
    /\ UNCHANGED <<tm_events, tm_stats, tm_handler, taskVars, ws, verdictVars,
                   ingestVars, webVars>>

NextStats ==
    \/ \E p \in Procs, e \in EventInputs : ThreatEventCreate(p, e)
    \/ \E p \in Procs : handler_get_or_create(p)
    \/ \E p \in Procs : handler_save(p)
    \/ recount_global_threat_stats
    \/ midnight

----------------------------------------------------------------------------
(* threat_intelligence.external_api: AbuseIPDB blacklist ingestion *)

\* 'ipAddress' values of the fetched entries.
IpAddresses == {"1.1.1.1", "2.2.2.2"}

\* 'abuseConfidencePercentage' values of the fetched entries.
Confidences == {30, 100}

\* Elements of blacklist_data['data']: an entry, an entry without
\* 'ipAddress', and an element that is not a JSON object.
BlacklistItems ==
    {[py |-> "dict", ipAddress |-> ip, abuseConfidencePercentage |-> c] :
        ip \in IpAddresses, c \in Confidences}
    \cup {[py |-> "dict", ipAddress |-> "", abuseConfidencePercentage |-> 30],
          [py |-> "str", ipAddress |-> "", abuseConfidencePercentage |-> 0]}

\* What get_blacklist returns: None (no API key, request failed), or the
\* decoded response with its 'data' list (an empty dict when the response
\* has no content).
BlacklistData ==
    {[py |-> "None", keys |-> {}, data |-> <<>>],
     [py |-> "dict", keys |-> {}, data |-> <<>>]}
    \cup {[py |-> "dict", keys |-> {"data"}, data |-> d] :
             d \in SeqsUpTo(BlacklistItems, MaxItems)}

\* Where the processing of an entry raises: nowhere, in get_or_create, in
\* threat_intel.save(), or in ThreatEvent.objects.create.
ItemFaults == {"none", "get_or_create", "save", "create_event"}

NoIntelRow == [exists |-> FALSE, abuse_confidence |-> 0]

IdleRun ==
    [pc |-> "idle", data |-> <<>>, i |-> 0, result |-> "none",
     created_count |-> 0, updated_count |-> 0, errors |-> 0]

\* No ingestion activity.
IdleIngest ==
    /\ ti_rows = [ip \in IpAddresses |-> NoIntelRow]
    /\ ti_events = <<>>
    /\ ti_run = IdleRun

\* 'high' if threat_intel.abuse_confidence > 90 else 'medium'.
BlacklistSeverity(abuse_confidence) ==
    IF abuse_confidence > 90 THEN "high" ELSE "medium"

\* update_from_abuseipdb_blacklist up to the loop: without data the run
\* returns False.
ingest_start(blacklist_data) ==
    /\ ti_run.pc \in {"idle", "returned", "raised"}
    /\ ti_run' =
         IF blacklist_data.py = "None" \/ blacklist_data.keys = {}
         THEN [IdleRun EXCEPT !.pc = "returned", !.result = "False"]
         ELSE [IdleRun EXCEPT !.pc = "running", !.data = blacklist_data.data,
                              !.i = 1]
    /\ UNCHANGED <<ti_rows, ti_events, taskVars, ws, verdictVars, threatmapVars, webVars>>

\* The loop iteration with a ThreatEvent created for updated rows as well.
ingest_item_event_on_update(fault) ==
    /\ ti_run.pc = "running"
    /\ ti_run.i <= Len(ti_run.data)
    /\ LET item == ti_run.data[ti_run.i]
           ip == item.ipAddress
           existed == ti_rows[ip].exists
           next == [ti_run EXCEPT !.i = @ + 1]
       IN  IF item.py # "dict"
           THEN \* item.get raises AttributeError, in the try block and again
                \* in the except block that logs the error
                /\ ti_run' = [ti_run EXCEPT !.pc = "raised", !.data = <<>>,
                                            !.i = 0, !.result = "AttributeError"]
                /\ UNCHANGED <<ti_rows, ti_events>>
           ELSE IF ip = ""
           THEN /\ ti_run' = next
                /\ UNCHANGED <<ti_rows, ti_events>>
           ELSE IF fault = "get_or_create"
           THEN /\ ti_run' = [next EXCEPT !.errors = @ + 1]
                /\ UNCHANGED <<ti_rows, ti_events>>
           ELSE IF fault = "save"
           THEN /\ ti_rows' = [ti_rows EXCEPT ![ip] = [@ EXCEPT !.exists = TRUE]]
                /\ ti_run' = [next EXCEPT !.errors = @ + 1]
                /\ UNCHANGED ti_events
           ELSE /\ ti_rows' = [ti_rows EXCEPT ![ip] =
                                 [exists |-> TRUE,
                                  abuse_confidence |-> item.abuseConfidencePercentage]]
                /\ IF existed
                   THEN /\ ti_run' = [next EXCEPT !.updated_count = @ + 1]
                        /\ ti_events' = Append(ti_events,
                               [ip |-> ip, event_type |-> "blacklist_detection",
                                severity |-> BlacklistSeverity(
                                    item.abuseConfidencePercentage)])
                   ELSE IF fault = "create_event"
                   THEN /\ ti_run' = [next EXCEPT !.created_count = @ + 1,
                                                  !.errors = @ + 1]
                        /\ UNCHANGED ti_events
                   ELSE /\ ti_run' = [next EXCEPT !.created_count = @ + 1]
                        /\ ti_events' = Append(ti_events,
                               [ip |-> ip, event_type |-> "blacklist_detection",
                                severity |-> BlacklistSeverity(
                                    item.abuseConfidencePercentage)])
    /\ UNCHANGED <<taskVars, ws, verdictVars, threatmapVars, webVars>>

\* One iteration of the loop over blacklist_data['data'].
ingest_item(fault) ==
    /\ ti_run.pc = "running"
    /\ ti_run.i <= Len(ti_run.data)
    /\ LET item == ti_run.data[ti_run.i]
           ip == item.ipAddress
           existed == ti_rows[ip].exists
           next == [ti_run EXCEPT !.i = @ + 1]
       IN  IF item.py # "dict"
           THEN \* item.get raises AttributeError, in the try block and again
                \* in the except block that logs the error
                /\ ti_run' = [ti_run EXCEPT !.pc = "raised", !.data = <<>>,
                                            !.i = 0, !.result = "AttributeError"]
                /\ UNCHANGED <<ti_rows, ti_events>>
           ELSE IF ip = ""
           THEN /\ ti_run' = next
                /\ UNCHANGED <<ti_rows, ti_events>>
           ELSE IF fault = "get_or_create"
           THEN /\ ti_run' = [next EXCEPT !.errors = @ + 1]
                /\ UNCHANGED <<ti_rows, ti_events>>
           ELSE IF fault = "save"
           THEN /\ ti_rows' = [ti_rows EXCEPT ![ip] = [@ EXCEPT !.exists = TRUE]]
                /\ ti_run' = [next EXCEPT !.errors = @ + 1]
                /\ UNCHANGED ti_events
           ELSE /\ ti_rows' = [ti_rows EXCEPT ![ip] =
                                 [exists |-> TRUE,
                                  abuse_confidence |-> item.abuseConfidencePercentage]]
                /\ IF existed
                   THEN /\ ti_run' = [next EXCEPT !.updated_count = @ + 1]
                        /\ UNCHANGED ti_events
                   ELSE IF fault = "create_event"
                   THEN /\ ti_run' = [next EXCEPT !.created_count = @ + 1,
                                                  !.errors = @ + 1]
                        /\ UNCHANGED ti_events
                   ELSE /\ ti_run' = [next EXCEPT !.created_count = @ + 1]
                        /\ ti_events' = Append(ti_events,
                               [ip |-> ip, event_type |-> "blacklist_detection",
                                severity |-> BlacklistSeverity(
                                    item.abuseConfidencePercentage)])
    /\ UNCHANGED <<taskVars, ws, verdictVars, threatmapVars, webVars>>

\* After the loop: the statistics are broadcast and the run returns True.
ingest_finish ==
    /\ ti_run.pc = "running"
    /\ ti_run.i > Len(ti_run.data)
    /\ ti_run' = [ti_run EXCEPT !.pc = "returned", !.data = <<>>, !.i = 0,
                                !.result = "True"]
    /\ UNCHANGED <<ti_rows, ti_events, taskVars, ws, verdictVars, threatmapVars, webVars>>

NextIngest ==
    \/ \E d \in BlacklistData : ingest_start(d)
    \/ \E f \in ItemFaults : ingest_item(f)
    \/ ingest_finish

----------------------------------------------------------------------------
(* scanner.views: the scan REST API *)

\* Authenticated users of the API; the last one has is_staff set.
ApiUsers == {"userA", "userB", "admin"}

\* Primary keys a request can name.
ScanPks == 1..MaxScans

NoResponse ==
    [user |-> "", action |-> "none", pk |-> 0, status_code |-> 0, results |-> {}]

IdleApi ==
    /\ api_scans = <<>>
    /\ api_response = NoResponse

\* ScanResult.objects.all(): every row, whoever owns it.
get_queryset_all(user) ==
    {pk \in DOMAIN api_scans : ~api_scans[pk].deleted}

\* ScanResultViewSet.get_queryset: ScanResult.objects.filter(user=request.user).
get_queryset(user) ==
    {pk \in DOMAIN api_scans : ~api_scans[pk].deleted /\ api_scans[pk].user = user}

\* FileUploadView.create: a ScanResult owned by request.user.
api_upload(user) ==
    /\ Len(api_scans) < MaxScans
    /\ api_scans' = Append(api_scans, [user |-> user, deleted |-> FALSE])
    /\ api_response' = [user |-> user, action |-> "upload", pk |-> 0,
                        status_code |-> 201, results |-> {Len(api_scans) + 1}]
    /\ UNCHANGED apiFrame

\* GET /api/scanner/scans/: ModelViewSet.list over get_queryset.
api_list(user) ==
    /\ api_response' = [user |-> user, action |-> "list", pk |-> 0,
                        status_code |-> 200, results |-> get_queryset(user)]
    /\ UNCHANGED <<api_scans, apiFrame>>

\* GET /api/scanner/scans/<pk>/: ModelViewSet.retrieve; get_object raises
\* Http404 for a pk outside get_queryset, which the exception handler
\* answers with 404.
api_retrieve(user, pk) ==
    /\ api_response' =
          IF pk \in get_queryset(user)
          THEN [user |-> user, action |-> "retrieve", pk |-> pk,
                status_code |-> 200, results |-> {pk}]
          ELSE [user |-> user, action |-> "retrieve", pk |-> pk,
                status_code |-> 404, results |-> {}]
    /\ UNCHANGED <<api_scans, apiFrame>>

\* DELETE /api/scanner/scans/<pk>/: ModelViewSet.destroy.
api_destroy(user, pk) ==
    /\ IF pk \in get_queryset(user)
       THEN /\ api_scans' = [api_scans EXCEPT ![pk].deleted = TRUE]
            /\ api_response' = [user |-> user, action |-> "destroy", pk |-> pk,
                                status_code |-> 204, results |-> {}]
       ELSE /\ api_response' = [user |-> user, action |-> "destroy", pk |-> pk,
                                status_code |-> 404, results |-> {}]
            /\ UNCHANGED api_scans
    /\ UNCHANGED apiFrame

NextApi ==
    \/ \E u \in ApiUsers : api_upload(u)
    \/ \E u \in ApiUsers : api_list(u)
    \/ \E u \in ApiUsers, pk \in ScanPks : api_retrieve(u, pk)
    \/ \E u \in ApiUsers, pk \in ScanPks : api_destroy(u, pk)

----------------------------------------------------------------------------
(* trojan_defender.rate_limiting: the fixed-window rule of /api/auth/ *)

\* 'limit' of the rule for POST requests under /api/auth/.
AuthLimit == 5

\* Results of get_client_identifier for the clients the model follows.
ClientIds == {"ip:10.0.0.1", "ip:10.0.0.2"}

Threads == 1..NumThreads

Windows == 1..MaxWindows

IdleRequest ==
    [pc |-> "idle", client_id |-> "", window |-> 0, count |-> 0,
     status_code |-> 0]

IdleRateLimit ==
    /\ rl_cache = [c \in ClientIds |-> [w \in Windows |-> 0]]
    /\ rl_passed = [c \in ClientIds |-> [w \in Windows |-> 0]]
    /\ rl_req = [t \in Threads |-> IdleRequest]
    /\ rl_clock = 1
    /\ rl_posts = 0

\* fixed_window_rate_limit up to the read of the counter: the cache key is
\* made of the client and the current window, and cache.get defaults to 0.
fixed_window_read(t, client_id) ==
    /\ rl_req[t].pc = "idle"
    /\ rl_posts < MaxPosts
    /\ rl_posts' = rl_posts + 1
    /\ rl_req' = [rl_req EXCEPT ![t] =
                     [pc |-> "read", client_id |-> client_id,
                      window |-> rl_clock,
                      count |-> rl_cache[client_id][rl_clock],
                      status_code |-> 0]]
    /\ UNCHANGED <<rl_cache, rl_passed, rl_clock, rateLimitFrame>>

\* The rest of fixed_window_rate_limit and of RateLimitMiddleware.__call__:
\* at the limit the request is answered with 429; below it count + 1 is
\* written back with cache.set and the request goes on to the view.
fixed_window_decide(t) ==
    /\ rl_req[t].pc = "read"
    /\ LET r == rl_req[t]
       IN  IF r.count >= AuthLimit
           THEN /\ rl_req' = [rl_req EXCEPT ![t] =
                                 [IdleRequest EXCEPT !.status_code = 429]]
                /\ UNCHANGED <<rl_cache, rl_passed>>
           ELSE /\ rl_cache' = [rl_cache EXCEPT
                                  ![r.client_id][r.window] = r.count + 1]
                /\ rl_passed' = [rl_passed EXCEPT
                                   ![r.client_id][r.window] = @ + 1]
                /\ rl_req' = [rl_req EXCEPT ![t] =
                                 [IdleRequest EXCEPT !.status_code = 200]]
    /\ UNCHANGED <<rl_clock, rl_posts, rateLimitFrame>>

\* period seconds have passed: time.time() / period reaches the next window.
next_window ==
    /\ rl_clock < MaxWindows
    /\ rl_clock' = rl_clock + 1
    /\ UNCHANGED <<rl_cache, rl_passed, rl_req, rl_posts, rateLimitFrame>>

NextRateLimit ==
    \/ \E t \in Threads, c \in ClientIds : fixed_window_read(t, c)
    \/ \E t \in Threads : fixed_window_decide(t)
    \/ next_window

----------------------------------------------------------------------------
(* scanner.signals: ScanThreat rows created by several processes *)

\* ScanThreat.severity of the rows created in the model.
ThreatSeverities == {"low", "medium", "high", "critical"}

IdleThreatHandler ==
    [pc |-> "idle", threat_level |-> "clean", severities |-> {}]

IdleScanThreats ==
    /\ st_rows = <<>>
    /\ st_level = "clean"
    /\ st_handler = [p \in Procs |-> IdleThreatHandler]

\* ScanThreat.objects.create: the row is inserted, then post_save runs the
\* handler in the creating process.
scan_threat_create(p, severity) ==
    /\ st_handler[p].pc = "idle"
    /\ Len(st_rows) < MaxThreatRows
    /\ st_rows' = Append(st_rows, severity)
    /\ st_handler' = [st_handler EXCEPT ![p].pc = "created"]
    /\ UNCHANGED <<st_level, scanThreatFrame>>

\* scan_result = instance.scan_result: the process's copy of the ScanResult.
threat_handler_get_scan_result(p) ==
    /\ st_handler[p].pc = "created"
    /\ st_handler' = [st_handler EXCEPT ![p].pc = "loaded",
                                        ![p].threat_level = st_level]
    /\ UNCHANGED <<st_rows, st_level, scanThreatFrame>>

\* severities = [threat.severity for threat in scan_result.threats.all()].
threat_handler_read_threats(p) ==
    /\ st_handler[p].pc = "loaded"
    /\ st_handler' = [st_handler EXCEPT
                        ![p].pc = "read",
                        ![p].severities = {st_rows[i] : i \in DOMAIN st_rows}]
    /\ UNCHANGED <<st_rows, st_level, scanThreatFrame>>

\* The if/elif chain on the copy and save(update_fields=['threat_level'])
\* in the branch taken; when no branch is taken nothing is written.
threat_handler_update(p) ==
    /\ st_handler[p].pc = "read"
    /\ LET h == st_handler[p]
           level == update_scan_result_threat_level(h.threat_level, h.severities)
       IN  st_level' = IF level # h.threat_level THEN level ELSE st_level
    /\ st_handler' = [st_handler EXCEPT ![p] = IdleThreatHandler]
    /\ UNCHANGED <<st_rows, scanThreatFrame>>

NextScanThreats ==
    \/ \E p \in Procs, sv \in ThreatSeverities : scan_threat_create(p, sv)
    \/ \E p \in Procs : threat_handler_get_scan_result(p)
    \/ \E p \in Procs : threat_handler_read_threats(p)
    \/ \E p \in Procs : threat_handler_update(p)

----------------------------------------------------------------------------
(* The local retry loops of a scan: scanner.tasks and scanner.utils *)

\* max_db_retries of scan_file.
max_db_retries == 3

\* max_retries of scan_with_clamav and of scan_with_yara.
engine_max_retries == 3

\* The loops in the order in which one run of scan_file goes through them.
RetryLoops == <<"db", "clamav", "yara">>

MaxAttempts(loop) == IF loop = "db" THEN max_db_retries ELSE engine_max_retries

\* retry_delay before the first attempt.
InitialRetryDelay(loop) == IF loop = "clamav" THEN 2 ELSE 1

\* How one attempt can end.  ScanResult.objects.get returns, raises
\* DoesNotExist or raises another error; ClamdAgnostic() / cd.ping() raise,
\* or ping returns True or False; compile_yara_rules catches every
\* Exception itself, so it returns the rules or None and the except branch
\* of the YARA loop is never entered.
AttemptOutcomes(loop) ==
    IF loop = "db" THEN {"ok", "DoesNotExist", "Exception"}
    ELSE IF loop = "clamav" THEN {"ok", "exception", "ping_false"}
    ELSE {"ok", "None"}

NewLoop(loop) ==
    [attempts |-> 0, failed |-> 0, retry_delay |-> InitialRetryDelay(loop),
     slept |-> <<>>, outcome |-> "none"]

IdleRetry ==
    /\ rt_pc = 0
    /\ rt_loops = [l \in {RetryLoops[i] : i \in DOMAIN RetryLoops} |-> NewLoop(l)]

\* scan_file is executed: the ScanResult lookup comes first.
retry_start ==
    /\ rt_pc = 0
    /\ rt_pc' = 1
    /\ UNCHANGED <<rt_loops, retryFrame>>

\* One pass through the body of the current loop.
retry_attempt(outcome) ==
    /\ rt_pc \in DOMAIN RetryLoops
    /\ LET loop == RetryLoops[rt_pc]
           l == rt_loops[loop]
           last == l.attempts = MaxAttempts(loop) - 1
           tried == [l EXCEPT !.attempts = @ + 1]
           failed == [tried EXCEPT !.failed = @ + 1]
           backoff == [failed EXCEPT !.slept = Append(@, l.retry_delay),
                                     !.retry_delay = 2 * @]
           finish(record, result, next) ==
               /\ rt_loops' = [rt_loops EXCEPT ![loop] =
                                  [record EXCEPT !.outcome = result]]
               /\ rt_pc' = next
       IN  /\ outcome \in AttemptOutcomes(loop)
           /\ IF outcome = "ok"
              THEN \* break
                   finish(tried, "proceed", rt_pc + 1)
              ELSE IF outcome \in {"DoesNotExist", "Exception"}
              THEN IF last
                   THEN \* raise: the task leaves for its outer handler
                        finish(failed, "raised", Len(RetryLoops) + 1)
                   ELSE /\ rt_loops' = [rt_loops EXCEPT ![loop] = backoff]
                        /\ UNCHANGED rt_pc
              ELSE IF outcome = "exception"
              THEN IF last
                   THEN \* return {'status': 'error', ...}
                        finish(failed, "error", rt_pc + 1)
                   ELSE /\ rt_loops' = [rt_loops EXCEPT ![loop] = backoff]
                        /\ UNCHANGED rt_pc
              ELSE IF outcome = "ping_false"
              THEN \* a warning is logged; after the last pass the function
                   \* goes on to cd.scan_file with this connection
                   IF last
                   THEN finish(failed, "scan_continues", rt_pc + 1)
                   ELSE /\ rt_loops' = [rt_loops EXCEPT ![loop] = failed]
                        /\ UNCHANGED rt_pc
              ELSE \* compile_yara_rules returned None; after the last pass
                   \* the function returns {'status': 'clean', ...}
                   IF last
                   THEN finish(failed, "clean", rt_pc + 1)
                   ELSE /\ rt_loops' = [rt_loops EXCEPT ![loop] = failed]
                        /\ UNCHANGED rt_pc
    /\ UNCHANGED retryFrame

NextRetry ==
    \/ retry_start
    \/ \E o \in {"ok", "DoesNotExist", "Exception", "exception", "ping_false",
                  "None"} : retry_attempt(o)

----------------------------------------------------------------------------
(* trojan_defender.middleware: BruteForceProtectionMiddleware, one IP *)

\* Failed attempts from which the IP is blocked.
BlockAfter == 5

\* The progressive timeout of the counter and of the block.
ProgressiveTimeout(ip_attempts) ==
    IF ip_attempts <= 3 THEN 300
    ELSE IF ip_attempts <= 5 THEN 900
    ELSE IF ip_attempts <= 10 THEN 3600
    ELSE 7200

\* Neither key is in the cache (cache.get gives 0 and None).
EmptyLoginCache == [attempts |-> 0, blocked |-> FALSE, timeout |-> 0]

IdleLogin == [pc |-> "idle", ip_attempts |-> 0, status_code |-> 0]

IdleBruteForce ==
    /\ bf_cache = EmptyLoginCache
    /\ bf_req = [t \in Threads |-> IdleLogin]
    /\ bf_failed = 0
    /\ bf_logins = 0

\* process_request for a login path, the request carrying no username the
\* middleware can read (a JSON body): a blocked IP is answered with 403,
\* otherwise the request goes on to the login view.
bf_process_request(t) ==
    /\ bf_req[t].pc = "idle"
    /\ bf_logins < MaxLogins
    /\ bf_logins' = bf_logins + 1
    /\ bf_req' = [bf_req EXCEPT ![t] =
                     IF bf_cache.blocked
                     THEN [IdleLogin EXCEPT !.status_code = 403]
                     ELSE [IdleLogin EXCEPT !.pc = "view"]]
    /\ UNCHANGED <<bf_cache, bf_failed, bruteForceFrame>>

\* The login view answers 200 or 401.
bf_login_view(t, status_code) ==
    /\ bf_req[t].pc = "view"
    /\ bf_req' = [bf_req EXCEPT ![t].pc = "response",
                                ![t].status_code = status_code]
    /\ UNCHANGED <<bf_cache, bf_failed, bf_logins, bruteForceFrame>>

\* process_response, first half: on 401 the counter is read; on 200 both
\* keys are deleted.
bf_process_response_get(t) ==
    /\ bf_req[t].pc = "response"
    /\ IF bf_req[t].status_code = 401
       THEN /\ bf_req' = [bf_req EXCEPT ![t].pc = "counted",
                                        ![t].ip_attempts = bf_cache.attempts + 1]
            /\ UNCHANGED <<bf_cache, bf_failed>>
       ELSE /\ bf_cache' = EmptyLoginCache
            /\ bf_failed' = 0
            /\ bf_req' = [bf_req EXCEPT ![t].pc = "idle"]
    /\ UNCHANGED <<bf_logins, bruteForceFrame>>

\* process_response, second half: the counter is written back and, from
\* the 5th attempt on, the IP is blocked for the same timeout; the 401
\* response is returned.
bf_process_response_set(t) ==
    /\ bf_req[t].pc = "counted"
    /\ LET ip_attempts == bf_req[t].ip_attempts
       IN  bf_cache' = [attempts |-> ip_attempts,
                        blocked |-> bf_cache.blocked \/ ip_attempts >= BlockAfter,
                        timeout |-> ProgressiveTimeout(ip_attempts)]
    /\ bf_failed' = bf_failed + 1
    /\ bf_req' = [bf_req EXCEPT ![t].pc = "idle", ![t].ip_attempts = 0]
    /\ UNCHANGED <<bf_logins, bruteForceFrame>>

\* The timeout of the keys has run out.
bf_expire ==
    /\ bf_cache # EmptyLoginCache
    /\ bf_cache' = EmptyLoginCache
    /\ bf_failed' = 0
    /\ UNCHANGED <<bf_req, bf_logins, bruteForceFrame>>

NextBruteForce ==
    \/ \E t \in Threads : bf_process_request(t)
    \/ \E t \in Threads, sc \in {200, 401} : bf_login_view(t, sc)
    \/ \E t \in Threads : bf_process_response_get(t)
    \/ \E t \in Threads : bf_process_response_set(t)
    \/ bf_expire

----------------------------------------------------------------------------
(* trojan_defender.consumers: GeneralWebSocketConsumer *)

\* What the query string of the connection carries: no token, a token that
\* does not validate, or the access token of a user.
QueryTokens == {"none", "invalid", "userA", "userB"}

\* Values of 'channel' in a subscribe message; the last one is not offered.
NamedChannels ==
    {"scan_updates", "threat_updates", "system_notifications", "other"}

IdleGeneralWS == [state |-> "none", user |-> "", groups |-> {}]

\* connect: with a valid token the connection is accepted and the channel
\* joins f"user_{user.id}"; otherwise it is closed.
gws_connect(token) ==
    /\ gws.state = "none"
    /\ gws' = IF token \in {"none", "invalid"}
              THEN [gws EXCEPT !.state = "closed"]
              ELSE [state |-> "open", user |-> token,
                    groups |-> {"user_" \o token}]
    /\ UNCHANGED generalWsFrame

\* receive of {'type': 'subscribe', 'channel': ...}.
gws_receive_subscribe(channel) ==
    /\ gws.state = "open"
    /\ gws' = IF channel \in {"scan_updates", "threat_updates",
                              "system_notifications"}
              THEN [gws EXCEPT !.groups = @ \cup {channel}]
              ELSE gws
    /\ UNCHANGED generalWsFrame

\* disconnect: hasattr(self.scope, 'user') asks the scope dict for an
\* attribute named user, which a dict does not have, so group_discard is
\* not reached.
gws_disconnect ==
    /\ gws.state = "open"
    /\ gws' = [gws EXCEPT !.state = "closed"]
    /\ UNCHANGED generalWsFrame

----------------------------------------------------------------------------
(* scanner.signals: notify_scan_completion and the threat notification *)

\* Runs of scan_file for one scan: the first delivery and its retries.
MaxTaskRuns == 3 + 1

\* Levels scan_file stores on completion.
CompletionLevels == ThreatLevel \cup {"unknown"}

IdleNotify ==
    /\ nt_scan = [status |-> "pending", threat_level |-> "clean",
                  notify_security_alerts |-> TRUE]
    /\ nt_rows = <<>>
    /\ nt_notifications = 0
    /\ nt_saves = [runs |-> 0, updates |-> 0]

\* notify_scan_completion with send_threat_notification_email, for
\* created=False: the number of Notification rows the post_save of the
\* given row adds.
notify_scan_completion(scan) ==
    IF /\ scan.status = "completed"
       /\ scan.notify_security_alerts
       /\ scan.threat_level # "clean"
    THEN 1
    ELSE 0

\* ScanResult.save() of the given row and its post_save handler.
nt_save_scan(scan) ==
    /\ nt_scan' = scan
    /\ nt_notifications' = nt_notifications + notify_scan_completion(scan)

\* scan_file starts, for the first time or as a retry of a failed run, and
\* saves status 'running'.
nt_scan_file_begin ==
    /\ nt_scan.status \in {"pending", "failed"}
    /\ nt_saves.runs < MaxTaskRuns
    /\ nt_saves' = [nt_saves EXCEPT !.runs = @ + 1]
    /\ nt_save_scan([nt_scan EXCEPT !.status = "running"])
    /\ UNCHANGED <<nt_rows, notifyFrame>>

\* scan_file saves the completed scan with the level it determined.
nt_scan_file_complete(level) ==
    /\ nt_scan.status = "running"
    /\ nt_save_scan([nt_scan EXCEPT !.status = "completed",
                                    !.threat_level = level])
    /\ UNCHANGED <<nt_rows, nt_saves, notifyFrame>>

\* scan_file saves the failed scan.
nt_scan_file_fail ==
    /\ nt_scan.status = "running"
    /\ nt_save_scan([nt_scan EXCEPT !.status = "failed"])
    /\ UNCHANGED <<nt_rows, nt_saves, notifyFrame>>

\* A ScanThreat is created; update_scan_result_threat_level saves the scan
\* with update_fields=['threat_level'] when the level changes.
nt_scan_threat_created(severity) ==
    /\ Len(nt_rows) < MaxThreatRows
    /\ nt_rows' = Append(nt_rows, severity)
    /\ LET level == update_scan_result_threat_level(
                        nt_scan.threat_level,
                        {nt_rows'[i] : i \in DOMAIN nt_rows'})
       IN  IF level # nt_scan.threat_level
           THEN nt_save_scan([nt_scan EXCEPT !.threat_level = level])
           ELSE UNCHANGED <<nt_scan, nt_notifications>>
    /\ UNCHANGED <<nt_saves, notifyFrame>>

\* PUT or PATCH of the scan by its owner through ScanResultViewSet: the
\* row is saved with status and threat_level as they are.
nt_api_update ==
    /\ nt_saves.updates < MaxUpdates
    /\ nt_saves' = [nt_saves EXCEPT !.updates = @ + 1]
    /\ nt_save_scan(nt_scan)
    /\ UNCHANGED <<nt_rows, notifyFrame>>

\* The owner changes notify_security_alerts in the notification settings.
nt_update_preferences(flag) ==
    /\ nt_scan.notify_security_alerts # flag
    /\ nt_scan' = [nt_scan EXCEPT !.notify_security_alerts = flag]
    /\ UNCHANGED <<nt_rows, nt_notifications, nt_saves, notifyFrame>>

NextNotify ==
    \/ \E flag \in BOOLEAN : nt_update_preferences(flag)
    \/ nt_scan_file_begin
    \/ \E level \in CompletionLevels : nt_scan_file_complete(level)
    \/ nt_scan_file_fail
    \/ \E sv \in ThreatSeverities : nt_scan_threat_created(sv)
    \/ nt_api_update

----------------------------------------------------------------------------
(* threat_intelligence.tasks: ThreatDataScheduler *)

\* THREAT_UPDATE_INTERVAL, in seconds.
update_interval == 3600

\* Seconds by which the clock of the model advances in one step.
TickSeconds == update_interval \div 3

\* self.last_update = None.
NoUpdateYet == -1

\* How the update of a call that got past should_update ends: the feed and
\* the statistics were updated, update_from_abuseipdb_blacklist returned
\* False, or an exception was caught.
UpdateOutcomes == {"success", "no_data", "exception"}

IdleCall == [pc |-> "idle", attempted |-> FALSE, started |-> 0, result |-> "none"]

IdleScheduler ==
    /\ sc_now = 0
    /\ sc_last_update = NoUpdateYet
    /\ sc_call = IdleCall
    /\ sc_stats = [calls |-> 0, successes |-> 0, failures |-> 0]

\* should_update with a strict comparison.
should_update_strictly_older ==
    \/ sc_last_update = NoUpdateYet
    \/ sc_now - sc_last_update > update_interval

\* should_update.
should_update ==
    \/ sc_last_update = NoUpdateYet
    \/ sc_now - sc_last_update >= update_interval

\* update_threat_data up to the call of the updater: without should_update
\* it returns False at once.
sc_update_threat_data ==
    /\ sc_call.pc # "updating"
    /\ sc_stats.calls < MaxCalls
    /\ sc_stats' = [sc_stats EXCEPT !.calls = @ + 1]
    /\ sc_call' = IF should_update
                  THEN [pc |-> "updating", attempted |-> TRUE,
                        started |-> sc_now, result |-> "none"]
                  ELSE [pc |-> "returned", attempted |-> FALSE,
                        started |-> sc_now, result |-> "False"]
    /\ UNCHANGED <<sc_now, sc_last_update, schedulerFrame>>

\* The rest of update_threat_data: last_update is set after a successful
\* update of the feed and the statistics.
sc_update_returns(outcome) ==
    /\ sc_call.pc = "updating"
    /\ IF outcome = "success"
       THEN /\ sc_last_update' = sc_now
            /\ sc_call' = [sc_call EXCEPT !.pc = "returned", !.result = "True"]
            /\ sc_stats' = [sc_stats EXCEPT !.successes = @ + 1]
       ELSE /\ sc_call' = [sc_call EXCEPT !.pc = "returned", !.result = "False"]
            /\ sc_stats' = [sc_stats EXCEPT !.failures = @ + 1]
            /\ UNCHANGED sc_last_update
    /\ UNCHANGED <<sc_now, schedulerFrame>>

\* Time passes.
sc_tick ==
    /\ sc_now < MaxTicks * TickSeconds
    /\ sc_now' = sc_now + TickSeconds
    /\ UNCHANGED <<sc_last_update, sc_call, sc_stats, schedulerFrame>>

NextScheduler ==
    \/ sc_update_threat_data
    \/ \E o \in UpdateOutcomes : sc_update_returns(o)
    \/ sc_tick

----------------------------------------------------------------------------
(* threatmap.tasks: process_scan_results_to_threats *)

\* The rows of the scan_results queryset, in the order it yields them.
RecentScans == 1..MaxRecentScans

IdleTaskRun == [pc |-> "idle", next |-> 0, processed_count |-> 0]

IdleProcessScan ==
    /\ ps_events = [id \in RecentScans |-> 0]
    /\ ps_run = [p \in Procs |-> IdleTaskRun]

\* The task starts on a worker and evaluates the queryset.
ps_start(p) ==
    /\ ps_run[p].pc = "idle"
    /\ ps_run' = [ps_run EXCEPT ![p] =
                     [pc |-> "loop", next |-> 1, processed_count |-> 0]]
    /\ UNCHANGED <<ps_events, processScanFrame>>

\* ThreatEvent.objects.filter(scan_result=scan_result).exists() for the
\* next row: with an event the row is skipped.
ps_check_exists(p) ==
    /\ ps_run[p].pc = "loop"
    /\ ps_run[p].next \in RecentScans
    /\ ps_run' = [ps_run EXCEPT ![p] =
                     IF ps_events[ps_run[p].next] > 0
                     THEN [@ EXCEPT !.next = @ + 1]
                     ELSE [@ EXCEPT !.pc = "create"]]
    /\ UNCHANGED <<ps_events, processScanFrame>>

\* ThreatEvent.objects.create for the row.
ps_create(p) ==
    /\ ps_run[p].pc = "create"
    /\ ps_events' = [ps_events EXCEPT ![ps_run[p].next] = @ + 1]
    /\ ps_run' = [ps_run EXCEPT ![p].pc = "loop", ![p].next = @ + 1,
                                ![p].processed_count = @ + 1]
    /\ UNCHANGED processScanFrame

\* The loop is through; the task returns.
ps_return(p) ==
    /\ ps_run[p].pc = "loop"
    /\ ps_run[p].next \notin RecentScans
    /\ ps_run' = [ps_run EXCEPT ![p].pc = "idle"]
    /\ UNCHANGED <<ps_events, processScanFrame>>

NextProcessScan ==
    \/ \E p \in Procs : ps_start(p)
    \/ \E p \in Procs : ps_check_exists(p)
    \/ \E p \in Procs : ps_create(p)
    \/ \E p \in Procs : ps_return(p)

\* No subsystem of the second half of the module has acted yet.
IdleWeb ==
    /\ IdleApi
    /\ IdleRateLimit
    /\ IdleScanThreats
    /\ IdleRetry
    /\ IdleBruteForce
    /\ gws = IdleGeneralWS
    /\ IdleNotify
    /\ IdleScheduler
    /\ IdleProcessScan

----------------------------------------------------------------------------
(* scanner.consumers and the channel layer *)

\* Id of the ScanResult the model follows; its user is the owner.
TheScanId == "s1"

\* Values of 'scan_id' in a subscribe message: the scan, an id no row has,
\* and a missing key.
RequestScanIds == {"s1", "s2", ""}

\* Values of 'scan_type' in a subscribe message ('file' is the default).
RequestScanTypes == {"file", "network"}

\* scope['user'] of a connection: the owner of the scan, another user, a
\* staff user, AnonymousUser, or no user in the scope at all.
ScopeUsers ==
    {[name |-> "owner", is_anonymous |-> FALSE, is_staff |-> FALSE],
     [name |-> "other", is_anonymous |-> FALSE, is_staff |-> FALSE],
     [name |-> "staff", is_anonymous |-> FALSE, is_staff |-> TRUE],
     [name |-> "AnonymousUser", is_anonymous |-> TRUE, is_staff |-> FALSE],
     [name |-> "None", is_anonymous |-> FALSE, is_staff |-> FALSE]}

\* ScanResult.user of the scan.
ScanOwner == "owner"

\* Methods of UnifiedScanConsumer that handle channel-layer messages.
ConsumerHandlers == {"send_update", "send_realtime_update"}

NoReply == [kind |-> "none", detail |-> ""]

\* json.dumps({'error': ...}) sent to the client.
ErrorReply(detail) == [kind |-> "error", detail |-> detail]

\* get_scan_status for a file scan: the row as stored.
get_scan_status == [kind |-> "status", detail |-> status]

\* No connection yet.
IdleWS ==
    [state |-> "none", user |-> "AnonymousUser", groups |-> {},
     requests |-> 0, last_reply |-> NoReply, received |-> {}]

\* f"scan_{scan_id}" of send_scan_status_update.
TaskGroupName(id) == "scan_" \o id

\* f'{scan_type}_scan_{scan_id}' of the consumer.
ConsumerGroupName(scan_type, id) == scan_type \o "_scan_" \o id

\* channel_layer.group_send: the message reaches the channels that are in
\* the group; the consumer dispatches it to the method named by 'type' and
\* fails when it has none.
GroupSend(w, group, message) ==
    IF w.state # "open" \/ group \notin w.groups THEN w
    ELSE IF message.type \in ConsumerHandlers
    THEN [w EXCEPT !.received = @ \cup {message}]
    ELSE [w EXCEPT !.state = "closed"]

\* send_scan_status_update(scan_id, status, message).
send_scan_status_update(w, st, message) ==
    GroupSend(w, TaskGroupName(TheScanId),
              [type |-> "scan_status_update", status |-> st, message |-> message])

\* user_can_access_scan without the comparison with the scan's user.
user_can_access_scan_any_user(user, id, scan_type) ==
    IF user.name = "None" THEN "AttributeError"
    ELSE IF user.is_anonymous THEN "False"
    ELSE IF scan_type # "file" THEN "NameError"
    ELSE IF id # TheScanId THEN "NameError"
    ELSE "True"

\* user_can_access_scan: 'True' / 'False', or the exception that leaves it
\* (NetworkScan is not defined in the module, so looking up a network scan
\* and evaluating the except clause both raise NameError).
user_can_access_scan(user, id, scan_type) ==
    IF user.name = "None" THEN "AttributeError"
    ELSE IF user.is_anonymous THEN "False"
    ELSE IF scan_type # "file" THEN "NameError"
    ELSE IF id # TheScanId THEN "NameError"
    ELSE IF user.name = ScanOwner \/ user.is_staff THEN "True"
    ELSE "False"

\* connect: the channel joins 'unified_scan_status' and the connection is
\* accepted.
ws_connect(user) ==
    /\ ws.state = "none"
    /\ ws' = [ws EXCEPT !.state = "open", !.user = user.name,
                        !.groups = @ \cup {"unified_scan_status"}]
    /\ UNCHANGED <<taskVars, verdictVars, threatmapVars, ingestVars, webVars>>

\* disconnect: the channel leaves 'unified_scan_status' only.
ws_disconnect ==
    /\ ws.state = "open"
    /\ ws' = [ws EXCEPT !.state = "closed",
                        !.groups = @ \ {"unified_scan_status"}]
    /\ UNCHANGED <<taskVars, verdictVars, threatmapVars, ingestVars, webVars>>

\* receive of {'action': 'subscribe', 'scan_id': ..., 'scan_type': ...}.
ws_receive_subscribe(id, scan_type) ==
    /\ ws.state = "open"
    /\ ws.requests < MaxRequests
    /\ LET user == CHOOSE u \in ScopeUsers : u.name = ws.user
           access == IF id = "" THEN "False"
                     ELSE user_can_access_scan(user, id, scan_type)
       IN  ws' = [ws EXCEPT
                    !.requests = @ + 1,
                    !.groups = IF access = "True"
                               THEN @ \cup {ConsumerGroupName(scan_type, id)}
                               ELSE @,
                    !.last_reply =
                        IF access = "True" THEN get_scan_status
                        ELSE IF access = "False"
                        THEN ErrorReply("Access denied or scan not found")
                        ELSE ErrorReply(access)]
    /\ UNCHANGED <<taskVars, verdictVars, threatmapVars, ingestVars, webVars>>

----------------------------------------------------------------------------
(* scanner.tasks: the Celery task scan_file *)

\* One retry more than the task declares.
max_retries_one_more == 3 + 1

max_retries == 3

default_countdown == 60

\* Outcomes of the VirusTotal call of one run: none when it is disabled.
VTCalls ==
    IF VIRUSTOTAL_ENABLED THEN VTRaw
    ELSE {[kind |-> "not_called", threats |-> <<>>]}

\* error_message of a ScanResult object as loaded from the database: the
\* model has no such field, the task sets it as a plain attribute.
NoAttribute == "no attribute"

\* The engines scan_file calls in a run that gets past the file checks.
EnginesOfRun ==
    {"clamav", "yara"} \cup (IF VIRUSTOTAL_ENABLED THEN {"virustotal"} ELSE {})

\* The dict built at "Initialize scan results".
InitialScanResults ==
    [clamav |-> SkippedDict, yara |-> SkippedDict, virustotal |-> SkippedDict]

\* The three engine blocks of scan_file, each with its own try/except.
RunEngines(clam_raw, yara_raw, vt_raw) ==
    [clamav |-> scan_with_clamav(clam_raw),
     yara |-> scan_with_yara(yara_raw),
     virustotal |-> VirusTotalEntry(VIRUSTOTAL_ENABLED, vt_raw)]

IdleArgs ==
    [clamav_result |-> SkippedDict, yara_result |-> SkippedDict,
     virustotal_threats |-> SkippedDict]

IdleOut ==
    [applied |-> FALSE, two_engine |-> "", with_virustotal |-> "", overall |-> ""]

\* The upload view has created the ScanResult (status pending, threat_level
\* clean by default), stored the file and called scan_file.delay.
Init ==
    /\ status = "pending"
    /\ threat_level = "clean"
    /\ scan_threats = EmptyBag
    /\ pc = "queued"
    /\ retries = 0
    /\ attempts = 0
    /\ countdown = 0
    /\ mem_threat_level = "clean"
    /\ mem_error_message = NoAttribute
    /\ engines_invoked = {}
    /\ scan_results = InitialScanResults
    /\ vt_returned = PyList(<<>>)
    /\ file_exists \in BOOLEAN
    /\ VIRUSTOTAL_ENABLED \in BOOLEAN
    /\ ws = IdleWS
    /\ IdleWeb
    /\ v_args = IdleArgs
    /\ v_out = IdleOut
    /\ IdleThreatMap
    /\ IdleIngest

\* scan_file starting again for a task that has already returned.
scan_file_begin_redelivered ==
    /\ pc \in {"queued", "done"}
    /\ attempts' = attempts + 1
    /\ mem_threat_level' = threat_level
    /\ mem_error_message' = NoAttribute
    /\ engines_invoked' = {}
    /\ status' = "running"
    /\ ws' = send_scan_status_update(ws, "running", "Scan in progress...")
    /\ pc' = "started"
    /\ UNCHANGED <<threat_level, scan_threats, retries, countdown, scan_results,
                   vt_returned, file_exists, VIRUSTOTAL_ENABLED, verdictVars,
                   threatmapVars, ingestVars, webVars>>

\* scan_file up to "Update scan status to running": the row is loaded and
\* saved with status 'running'.
scan_file_begin ==
    /\ pc = "queued"
    /\ attempts' = attempts + 1
    /\ mem_threat_level' = threat_level
    /\ mem_error_message' = NoAttribute
    /\ engines_invoked' = {}
    /\ status' = "running"
    /\ ws' = send_scan_status_update(ws, "running", "Scan in progress...")
    /\ pc' = "started"
    /\ UNCHANGED <<threat_level, scan_threats, retries, countdown, scan_results,
                   vt_returned, file_exists, VIRUSTOTAL_ENABLED, verdictVars,
                   threatmapVars, ingestVars, webVars>>

\* scan_file going on to the engines although the file is missing.
scan_file_file_missing_unchecked ==
    /\ pc = "started"
    /\ ~file_exists
    /\ scan_results' = InitialScanResults
    /\ engines_invoked' = EnginesOfRun
    /\ pc' = "scanned"
    /\ UNCHANGED <<status, threat_level, scan_threats, retries, attempts,
                   countdown, mem_threat_level, mem_error_message, vt_returned,
                   file_exists, VIRUSTOTAL_ENABLED, ws, verdictVars,
                   threatmapVars, ingestVars, webVars>>

\* "Validate file exists and is accessible": the in-memory row is saved with
\* status 'failed' and the task returns without running an engine.
scan_file_file_missing ==
    /\ pc = "started"
    /\ ~file_exists
    /\ status' = "failed"
    /\ threat_level' = mem_threat_level
    /\ mem_error_message' = "File not found"
    /\ ws' = send_scan_status_update(ws, "failed", "File not found")
    /\ pc' = "done"
    /\ UNCHANGED <<scan_threats, retries, attempts, countdown, mem_threat_level,
                   engines_invoked, scan_results, vt_returned, file_exists,
                   VIRUSTOTAL_ENABLED, verdictVars, threatmapVars, ingestVars, webVars>>

\* scan_file giving up at the first engine whose result has status error.
scan_file_engines_abort_on_error(clam_raw, yara_raw, vt_raw) ==
    /\ pc = "started"
    /\ file_exists
    /\ LET all == RunEngines(clam_raw, yara_raw, vt_raw)
           ran == IF all.clamav.status = "error" THEN {"clamav"}
                  ELSE IF all.yara.status = "error" THEN {"clamav", "yara"}
                  ELSE EnginesOfRun
       IN  /\ scan_results' =
                 [e \in {"clamav", "yara", "virustotal"} |->
                     IF e \in ran THEN all[e] ELSE SkippedDict]
           /\ engines_invoked' = ran
           /\ status' = IF ran = EnginesOfRun THEN status ELSE "failed"
    /\ vt_returned' = IF VIRUSTOTAL_ENABLED
                            THEN scan_with_virustotal(vt_raw)
                            ELSE vt_returned
    /\ pc' = "scanned"
    /\ UNCHANGED <<threat_level, scan_threats, retries, attempts, countdown,
                   mem_threat_level, mem_error_message, file_exists,
                   VIRUSTOTAL_ENABLED, ws, verdictVars, threatmapVars,
                   ingestVars, webVars>>

\* The three engines run one after the other and their results are kept in
\* the scan_results dict; VirusTotal is called only when enabled.
scan_file_engines(clam_raw, yara_raw, vt_raw) ==
    /\ pc = "started"
    /\ file_exists
    /\ scan_results' = RunEngines(clam_raw, yara_raw, vt_raw)
    /\ vt_returned' = IF VIRUSTOTAL_ENABLED
                            THEN scan_with_virustotal(vt_raw)
                            ELSE vt_returned
    /\ scan_threats' = CreateThreatEntries(scan_threats,
                                           GetThreats(scan_results'.yara))
    /\ engines_invoked' = EnginesOfRun
    /\ pc' = "scanned"
    /\ UNCHANGED <<status, threat_level, retries, attempts, countdown,
                   mem_threat_level, mem_error_message, file_exists,
                   VIRUSTOTAL_ENABLED, ws, verdictVars, threatmapVars,
                   ingestVars, webVars>>

\* threat_level as computed at "Determine overall threat level".
TaskThreatLevel ==
    OverallThreatLevel(scan_results.clamav, scan_results.yara,
                       scan_results.virustotal)

\* "Update scan result": the row is saved as completed with the combined
\* verdict.
scan_file_complete ==
    /\ pc = "scanned"
    /\ status' = "completed"
    /\ threat_level' = TaskThreatLevel
    /\ mem_threat_level' = TaskThreatLevel
    /\ mem_error_message' = "None"
    /\ ws' = send_scan_status_update(ws, "completed", "Scan completed")
    /\ pc' = "done"
    /\ UNCHANGED <<scan_threats, retries, attempts, countdown, engines_invoked,
                   scan_results, vt_returned, file_exists, VIRUSTOTAL_ENABLED,
                   verdictVars, threatmapVars, ingestVars, webVars>>

\* "except Exception as save_error": scan_result.save() raised; the task
\* tries to save the row as failed (which may fail as well) and returns.
scan_file_save_failed(second_save_ok) ==
    /\ pc = "scanned"
    /\ mem_threat_level' = TaskThreatLevel
    /\ status' = IF second_save_ok THEN "failed" ELSE status
    /\ threat_level' = IF second_save_ok THEN TaskThreatLevel ELSE threat_level
    /\ mem_error_message' = "Failed to save results"
    /\ ws' = send_scan_status_update(ws, "failed", "Failed to save results")
    /\ pc' = "done"
    /\ UNCHANGED <<scan_threats, retries, attempts, countdown, engines_invoked,
                   scan_results, vt_returned, file_exists, VIRUSTOTAL_ENABLED,
                   verdictVars, threatmapVars, ingestVars, webVars>>

\* "except Exception as e": an exception leaves the body, either before the
\* 'running' save took effect (pc = "queued") or after it.  The handler
\* re-reads the row and saves it as failed (unless that fails too), then
\* retries while self.request.retries < self.max_retries, else re-raises.
scan_file_raise(update_ok) ==
    /\ pc \in {"queued", "started"}
    /\ attempts' = IF pc = "queued" THEN attempts + 1 ELSE attempts
    /\ status' = IF update_ok THEN "failed" ELSE status
    /\ mem_error_message' = IF update_ok THEN "Scan task failed"
                             ELSE mem_error_message
    /\ ws' = send_scan_status_update(ws, "failed", "Scan task failed")
    /\ IF retries < max_retries
       THEN /\ countdown' = default_countdown * (2 ^ retries)
            /\ retries' = retries + 1
            /\ pc' = "queued"
       ELSE /\ pc' = "dead"
            /\ UNCHANGED <<countdown, retries>>
    /\ UNCHANGED <<threat_level, scan_threats, mem_threat_level,
                   engines_invoked, scan_results, vt_returned, file_exists,
                   VIRUSTOTAL_ENABLED, verdictVars, threatmapVars, ingestVars, webVars>>

\* A ScanThreat row is created for the scan; its post_save handler
\* recomputes the scan's threat_level.
ScanThreatCreated(severity) ==
    /\ BagCardinality(scan_threats) < MaxThreatRows
    /\ scan_threats' = scan_threats (+) SetToBag({Threat("test_engine", severity)})
    /\ threat_level' = update_scan_result_threat_level(
                           threat_level, Severities(scan_threats'))
    /\ UNCHANGED <<status, pc, retries, attempts, countdown, mem_threat_level,
                   mem_error_message, engines_invoked, scan_results, vt_returned,
                   file_exists, VIRUSTOTAL_ENABLED, ws, verdictVars,
                   threatmapVars, ingestVars, webVars>>

Next ==
    \/ scan_file_begin
    \/ scan_file_file_missing
    \/ \E c \in ClamRaw, y \in YaraRaw, v \in VTCalls : scan_file_engines(c, y, v)
    \/ scan_file_complete
    \/ \E ok \in BOOLEAN : scan_file_save_failed(ok)
    \/ \E ok \in BOOLEAN : scan_file_raise(ok)
    \/ \E sev \in ThreatLevel : ScanThreatCreated(sev)

Spec == Init /\ [][Next]_vars

----------------------------------------------------------------------------
(* The verdict functions on their own *)

ClamResults ==
    {scan_with_clamav(r) : r \in ClamRawUpTo(MaxArgThreats)} \cup {SkippedDict}

YaraResults ==
    {scan_with_yara(r) : r \in YaraRawUpTo(MaxArgThreats)} \cup {SkippedDict}

\* Third argument: a list of threats as the signature asks for, or a result
\* dict as scan_file passes.
VirusTotalArgs ==
    {scan_with_virustotal(r) : r \in VTRawUpTo(MaxArgThreats)}
    \cup {VirusTotalEntry(e, r) : e \in BOOLEAN, r \in VTRawUpTo(MaxArgThreats)}

InitVerdict ==
    /\ status = "pending"
    /\ threat_level = "clean"
    /\ scan_threats = EmptyBag
    /\ pc = "idle"
    /\ retries = 0
    /\ attempts = 0
    /\ countdown = 0
    /\ mem_threat_level = "clean"
    /\ mem_error_message = NoAttribute
    /\ engines_invoked = {}
    /\ scan_results = InitialScanResults
    /\ vt_returned = PyList(<<>>)
    /\ file_exists = TRUE
    /\ VIRUSTOTAL_ENABLED = FALSE
    /\ ws = IdleWS
    /\ IdleThreatMap
    /\ IdleIngest
    /\ IdleWeb
    /\ v_args \in [clamav_result : ClamResults, yara_result : YaraResults,
                   virustotal_threats : VirusTotalArgs]
    /\ v_out = IdleOut

ApplyVerdict ==
    /\ ~v_out.applied
    /\ v_out' =
         [applied |-> TRUE,
          two_engine |-> determine_threat_level(v_args.clamav_result,
                                                v_args.yara_result),
          with_virustotal |-> determine_threat_level_with_virustotal(
              v_args.clamav_result, v_args.yara_result,
              v_args.virustotal_threats),
          overall |-> OverallThreatLevel(
              v_args.clamav_result, v_args.yara_result,
              v_args.virustotal_threats)]
    /\ UNCHANGED <<v_args, taskVars, ws, threatmapVars, ingestVars, webVars>>

NextVerdict == ApplyVerdict

SpecVerdict == InitVerdict /\ [][NextVerdict]_vars

----------------------------------------------------------------------------
(* The other subsystems on their own *)

\* No scan task is queued.
NoScanTask ==
    /\ status = "pending"
    /\ threat_level = "clean"
    /\ scan_threats = EmptyBag
    /\ pc = "idle"
    /\ retries = 0
    /\ attempts = 0
    /\ countdown = 0
    /\ mem_threat_level = "clean"
    /\ mem_error_message = NoAttribute
    /\ engines_invoked = {}
    /\ scan_results = InitialScanResults
    /\ vt_returned = PyList(<<>>)
    /\ file_exists = TRUE
    /\ VIRUSTOTAL_ENABLED = FALSE
    /\ v_args = IdleArgs
    /\ v_out = IdleOut

\* Engine outcomes of the scans followed together with the WebSocket
\* connection: ClamAV and YARA find nothing or one thing each.
ClamRawWS == {r \in ClamRaw : r.kind \in {"none", "result"}}

YaraRawWS == {r \in YaraRaw : r.kind = "no_rules"}

\* A scan and a connection to /ws/scan-status/.
NextWS ==
    \/ scan_file_begin
    \/ scan_file_file_missing
    \/ \E c \in ClamRawWS, y \in YaraRawWS, v \in VTCalls : scan_file_engines(c, y, v)
    \/ scan_file_complete
    \/ \E ok \in BOOLEAN : scan_file_save_failed(ok)
    \/ \E ok \in BOOLEAN : scan_file_raise(ok)
    \/ \E u \in ScopeUsers : ws_connect(u)
    \/ \E id \in RequestScanIds, t \in RequestScanTypes : ws_receive_subscribe(id, t)
    \/ ws_disconnect

SpecWS == Init /\ [][NextWS]_vars

InitStats ==
    NoScanTask /\ ws = IdleWS /\ IdleThreatMap /\ IdleIngest /\ IdleWeb

SpecStats == InitStats /\ [][NextStats]_vars

InitIngest ==
    NoScanTask /\ ws = IdleWS /\ IdleThreatMap /\ IdleIngest /\ IdleWeb

SpecIngest == InitIngest /\ [][NextIngest]_vars

InitApi == NoScanTask /\ ws = IdleWS /\ IdleThreatMap /\ IdleIngest /\ IdleWeb

SpecApi == InitApi /\ [][NextApi]_vars

InitRateLimit ==
    NoScanTask /\ ws = IdleWS /\ IdleThreatMap /\ IdleIngest /\ IdleWeb

SpecRateLimit == InitRateLimit /\ [][NextRateLimit]_vars

InitScanThreats ==
    NoScanTask /\ ws = IdleWS /\ IdleThreatMap /\ IdleIngest /\ IdleWeb

SpecScanThreats == InitScanThreats /\ [][NextScanThreats]_vars

InitRetry ==
    NoScanTask /\ ws = IdleWS /\ IdleThreatMap /\ IdleIngest /\ IdleWeb

SpecRetry == InitRetry /\ [][NextRetry]_vars

InitBruteForce ==
    NoScanTask /\ ws = IdleWS /\ IdleThreatMap /\ IdleIngest /\ IdleWeb

SpecBruteForce == InitBruteForce /\ [][NextBruteForce]_vars

\* The two consumers, with no scan running.
NextConsumers ==
    \/ \E u \in ScopeUsers : ws_connect(u)
    \/ \E id \in RequestScanIds, t \in RequestScanTypes : ws_receive_subscribe(id, t)
    \/ ws_disconnect
    \/ \E token \in QueryTokens : gws_connect(token)
    \/ \E channel \in NamedChannels : gws_receive_subscribe(channel)
    \/ gws_disconnect

InitConsumers ==
    NoScanTask /\ ws = IdleWS /\ IdleThreatMap /\ IdleIngest /\ IdleWeb

SpecConsumers == InitConsumers /\ [][NextConsumers]_vars

InitNotify ==
    NoScanTask /\ ws = IdleWS /\ IdleThreatMap /\ IdleIngest /\ IdleWeb

SpecNotify == InitNotify /\ [][NextNotify]_vars

InitScheduler ==
    NoScanTask /\ ws = IdleWS /\ IdleThreatMap /\ IdleIngest /\ IdleWeb

SpecScheduler == InitScheduler /\ [][NextScheduler]_vars

InitProcessScan ==
    NoScanTask /\ ws = IdleWS /\ IdleThreatMap /\ IdleIngest /\ IdleWeb

SpecProcessScan == InitProcessScan /\ [][NextProcessScan]_vars

----------------------------------------------------------------------------
(* Properties *)

\* Position of a level in the order clean < low < medium < high < critical.
Rank(level) ==
    CASE level = "clean" -> 0
      [] level = "low" -> 1
      [] level = "medium" -> 2
      [] level = "high" -> 3
      [] level = "critical" -> 4

\* The highest severity among the given severities.
MaxSeverity(severities) ==
    CHOOSE s \in severities : \A t \in severities : Rank(t) <= Rank(s)

\* A step that creates one ScanThreat row and runs its post_save handler.
ThreatCreatedStep ==
    BagCardinality(scan_threats') = BagCardinality(scan_threats) + 1

\* A step in which scan_file saves the row as completed.
CompletedStep == pc = "scanned" /\ pc' = "done" /\ status' = "completed"

\* A step in which an exception leaves the body of scan_file.
RaiseStep ==
    /\ pc \in {"queued", "started"}
    /\ retries' = retries + 1 \/ pc' = "dead"

\* The findings the engines reported in the last run.
ReportedFindings ==
    GetThreats(scan_results.clamav) \o GetThreats(scan_results.yara)
        \o vt_returned.items

\* Number of elements of seq equal to x.
Occurrences(seq, x) == Cardinality({i \in 1..Len(seq) : seq[i] = x})

\* C1: threat_level never changes to a lower level of the order
\* clean < low < medium < high < critical, whatever the order of ScanThreat
\* creations, task completions and task retries.
C1_NeverDowngraded ==
    [][(threat_level \in ThreatLevel /\ threat_level' \in ThreatLevel)
          => Rank(threat_level') >= Rank(threat_level)]_vars

\* C2 as stated: on a ScanThreat creation the level changes only if the
\* maximum severity of the scan's threats is strictly greater than the
\* current level, and then becomes that maximum.
C2_RaisedOnlyToGreaterMax ==
    [][(ThreatCreatedStep /\ threat_level \in ThreatLevel)
          => LET m == MaxSeverity(Severities(scan_threats'))
             IN  threat_level' = IF Rank(m) > Rank(threat_level)
                                 THEN m ELSE threat_level]_vars

\* Rank used by the handler's comparisons: a stored level outside the five
\* (such as 'unknown') is neither clean nor medium or above.
HandlerRank(level) == IF level \in ThreatLevel THEN Rank(level) ELSE Rank("low")

\* C2 as amended: on a ScanThreat creation the level becomes the maximum
\* severity if that is strictly greater than the current level (a level
\* outside the five counting as low); otherwise a level of clean becomes low
\* and any other level is left unchanged.
C2_HandlerEffect ==
    [][ThreatCreatedStep
          => LET m == MaxSeverity(Severities(scan_threats'))
             IN  threat_level' = IF Rank(m) > HandlerRank(threat_level) THEN m
                                 ELSE IF threat_level = "clean" THEN "low"
                                 ELSE threat_level]_vars

\* Two threats were created and the handler raised the level to the higher.
C2_Witness ==
    /\ Severities(scan_threats) = {"medium", "critical"}
    /\ threat_level = "critical"

\* Arguments of the pure-function run: the VirusTotal threats are a list, no
\* engine result has status error.
ArgsAreLists == v_args.virustotal_threats.py = "list"

NoErrorArgs ==
    /\ v_args.clamav_result.status # "error"
    /\ v_args.yara_result.status # "error"
    /\ v_args.virustotal_threats.status # "error"

TotalFindingsArgs ==
    Len(GetThreats(v_args.clamav_result)) + Len(GetThreats(v_args.yara_result))
        + Len(v_args.virustotal_threats.items)
        + Len(GetThreats(v_args.virustotal_threats))

\* The verdict by count alone.
ByCount(n) ==
    IF n = 0 THEN "clean" ELSE IF n = 1 THEN "low"
    ELSE IF n = 2 THEN "medium" ELSE "high"

AnyEngineInfected ==
    \/ scan_results.clamav.status = "infected"
    \/ scan_results.yara.status = "infected"
    \/ \E i \in 1..Len(vt_returned.items) : vt_returned.items[i].severity = "high"

\* C4: if any engine reports infected / malicious, a run that completes
\* stores threat_level high.
C4_InfectedStoresHigh ==
    [][(CompletedStep /\ AnyEngineInfected) => threat_level' = "high"]_vars

\* C5: a run in which every engine that ran finished without error and none
\* reported a finding completes with threat_level clean.
C5_CleanRunStoresClean ==
    [][(/\ CompletedStep
        /\ \A e \in {"clamav", "yara", "virustotal"} :
               scan_results[e].status \in {"clean", "skipped"}
        /\ ReportedFindings = <<>>)
          => threat_level' = "clean"]_vars

\* Every engine result of the pure-function run has status error and there
\* is no finding.
AllErrorArgs ==
    /\ v_args.clamav_result.status = "error"
    /\ v_args.yara_result.status = "error"
    /\ \/ v_args.virustotal_threats.py = "list"
       \/ v_args.virustotal_threats.status = "error"
    /\ TotalFindingsArgs = 0

\* C6: if every engine result has status error and no engine reports a
\* finding, the combined verdict is unknown (for determine_threat_level, for
\* determine_threat_level_with_virustotal on a list of threats, and for the
\* verdict scan_file stores).
C6_AllErrorsUnknown ==
    (v_out.applied /\ AllErrorArgs)
        => /\ v_out.two_engine = "unknown"
           /\ v_out.overall = "unknown"
           /\ ArgsAreLists => v_out.with_virustotal = "unknown"

C6_Witness ==
    /\ v_out.applied /\ AllErrorArgs /\ ArgsAreLists
    /\ v_out.with_virustotal = "unknown"

\* ClamAV reported exactly one finding, the other engines none.
OneClamAVFindingOnly ==
    /\ Len(GetThreats(scan_results.clamav)) = 1
    /\ GetThreats(scan_results.yara) = <<>>
    /\ vt_returned.items = <<>>

\* C7 as stated: such a scan ends with threat_level low.
C7_OneClamAVFindingLow ==
    [][(CompletedStep /\ OneClamAVFindingOnly) => threat_level' = "low"]_vars

\* C7 as amended: such a scan is completed with threat_level high.
C7_OneClamAVFindingHigh ==
    [][(CompletedStep /\ OneClamAVFindingOnly) => threat_level' = "high"]_vars

C7_Witness ==
    /\ pc = "done" /\ status = "completed"
    /\ OneClamAVFindingOnly
    /\ threat_level = "high"

\* C8: a scan whose task raised on its 1st and 2nd execution and completed
\* on the 3rd has status completed and one ScanThreat row for each finding.
C8_RetriedScanHasEachFindingOnce ==
    (attempts = 3 /\ pc = "done" /\ status = "completed")
        => \A i \in 1..Len(ReportedFindings) :
               CopiesIn(ReportedFindings[i], scan_threats)
                   = Occurrences(ReportedFindings, ReportedFindings[i])

\* C9 as stated: scan_file is attempted at most 3 times; after the 3rd
\* failed attempt no further retry is scheduled.
C9_AtMostThreeAttempts ==
    /\ attempts <= 3
    /\ ~(attempts = 3 /\ pc = "queued")

\* C9 as amended: at most 4 attempts (the first and 3 retries); an exception
\* leaves the status failed unless the status update fails as well; a retry
\* is scheduled exactly while fewer than 3 retries were made, with countdown
\* 60 s doubling from retry to retry; after the 4th failed attempt nothing is
\* scheduled and the status no longer changes.
C9_AtMostFourAttempts ==
    /\ [](attempts <= 4)
    /\ [][RaiseStep =>
            /\ status' \in {"failed", status}
            /\ (pc' = "queued") <=> (attempts' < 4)
            /\ pc' = "queued" =>
                 /\ retries' = retries + 1
                 /\ countdown' = IF retries = 0 THEN 60 ELSE 2 * countdown]_vars
    /\ [][pc = "dead" => (pc' = "dead" /\ status' = status /\ attempts' = 4)]_vars

C9_Witness ==
    /\ pc = "dead" /\ attempts = 4 /\ retries = 3
    /\ countdown = 240
    /\ status = "failed"

MissingFileStep == pc = "started" /\ ~file_exists /\ pc' = "done"

\* C11: if the stored file does not exist when scan_file runs, the run ends
\* with status failed and the error message "File not found", and it
\* invokes no engine and records no engine result.
C11_MissingFileFailsWithoutEngines ==
    [][(pc = "started" /\ ~file_exists)
          => /\ engines_invoked' = {}
             /\ scan_results' = scan_results
             /\ pc' \notin {"started", "scanned"}
                  => status' \in {"failed", status}
             /\ pc' = "done"
                  => /\ status' = "failed"
                     /\ mem_error_message' = "File not found"]_vars

C11_Witness ==
    /\ pc = "done" /\ ~file_exists
    /\ status = "failed"
    /\ mem_error_message = "File not found"
    /\ engines_invoked = {}

\* Some engine of the last run has a result with status error.
AnyEngineError ==
    \E e \in {"clamav", "yara", "virustotal"} : scan_results[e].status = "error"

\* C12: whatever errors the engines give, every enabled engine is invoked
\* and its result recorded (the VirusTotal call, whose returned list makes
\* the task's own code raise, with status error); the run then ends with
\* status completed and without a retry, unless saving the result fails.
C12_EngineErrorsDoNotAbort ==
    [][/\ (pc = "started" /\ pc' = "scanned")
            => /\ engines_invoked' = EnginesOfRun
               /\ status' = status
               /\ VIRUSTOTAL_ENABLED => scan_results'.virustotal.status = "error"
               /\ ~VIRUSTOTAL_ENABLED => scan_results'.virustotal = SkippedDict
       /\ (pc = "scanned" /\ AnyEngineError)
            => /\ status' = status
                  \/ /\ pc' = "done" /\ retries' = retries
                     /\ \/ status' = "completed"
                        \/ mem_error_message' = "Failed to save results"]_vars

C12_Witness ==
    /\ pc = "done" /\ status = "completed"
    /\ scan_results.clamav.status = "error"
    /\ scan_results.yara.status = "infected"
    /\ engines_invoked = {"clamav", "yara", "virustotal"}
    /\ scan_results.virustotal.status = "error"

\* C13: at every point ScanResult.status is one of pending, scanning,
\* completed, failed and ScanResult.threat_level is one of clean, low,
\* medium, high, critical.
C13_FieldsWithinChoices ==
    status \in ScanStatus /\ threat_level \in ThreatLevel

\* C14: when scan_file completes a scan, the scan owns exactly one
\* ScanThreat row for each finding an engine reported.
C14_CompletedScanOwnsItsFindings ==
    [][CompletedStep
          => \A i \in 1..Len(ReportedFindings') :
                 CopiesIn(ReportedFindings'[i], scan_threats')
                     = Occurrences(ReportedFindings', ReportedFindings'[i])]_vars

\* The connection is in the group the consumer uses for the scan.
SubscribedToScan == ConsumerGroupName("file", TheScanId) \in ws.groups

\* C15: a client that has subscribed to one of its own file scans receives
\* a status-update message when scan_file then completes that scan.
C15_SubscriberGetsCompletion ==
    [][(/\ CompletedStep
        /\ ws.state = "open" /\ ws.user = ScanOwner
        /\ SubscribedToScan)
          => \E m \in ws'.received : m.status = "completed"]_vars

\* A step in which the consumer handles a subscribe message.
SubscribeStep == ws'.requests = ws.requests + 1

\* C16: the connection is added to a scan's group only if its user is
\* authenticated and owns the scan or is staff (the reply is then the
\* scan's current status); every other subscribe message is answered with
\* an error and adds no group.
C16_SubscribeOnlyOwnerOrStaff ==
    /\ [](\A g \in ws.groups \ {"unified_scan_status"} :
              /\ g = ConsumerGroupName("file", TheScanId)
              /\ ws.user \in {ScanOwner, "staff"})
    /\ [][SubscribeStep
            => \/ /\ ws.user \in {ScanOwner, "staff"}
                  /\ ws'.groups = ws.groups \cup {ConsumerGroupName("file", TheScanId)}
                  /\ ws'.last_reply.kind = "status"
               \/ /\ ws'.groups = ws.groups
                  /\ ws'.last_reply.kind = "error"]_vars

\* A staff user subscribed to the owner's scan, then asked for a scan it
\* may not see and got an error.
C16_Witness ==
    /\ ws.user = "staff"
    /\ SubscribedToScan
    /\ ws.requests = 2
    /\ ws.last_reply.kind = "error"

\* No post_save handler of ThreatEvent is in flight.
Quiescent == \A p \in Procs : tm_handler[p].pc = "idle"

\* The counters of a date; a date without a row counts nothing.
StatsOf(d) == IF tm_stats[d].exists THEN tm_stats[d] ELSE NewStatsRow

\* C17: for each day the counters of GlobalThreatStats (total, per threat
\* type, per severity, per country) equal the number of ThreatEvents
\* recorded that day with that attribute (stated for the moments at which
\* no handler is running).
C17_DailyCountersMatchEvents ==
    Quiescent =>
        \A d \in Days :
            LET recorded == EventsOf(d)
                row == StatsOf(d)
            IN  /\ row.total_threats = Len(recorded)
                /\ \A t \in ThreatType :
                       row.type_count[t]
                           = Len(SelectSeq(recorded, LAMBDA e : TypeCounter(e.threat_type) = t))
                /\ \A sv \in ThreatSeverity :
                       row.severity_count[sv]
                           = Len(SelectSeq(recorded, LAMBDA e : e.severity = sv))
                /\ \A c \in Countries \ {""} :
                       row.country_distribution[c]
                           = Len(SelectSeq(recorded, LAMBDA e : e.country = c))

\* A step in which the handler of process p saves the row.
SaveStep(p) == tm_handler[p].pc = "loaded" /\ tm_handler'[p].pc = "idle"

\* C18: the handler's save writes the total it read at get_or_create plus
\* one, whatever was written to the row in between (no lock, no re-read),
\* so two handlers that overlap on the same day can leave total_threats
\* increased by only 1.
C18_SaveWritesTotalReadEarlier ==
    [][\A p \in Procs :
          SaveStep(p)
              => tm_stats'[tm_handler[p].date].total_threats
                     = tm_handler[p].stats.total_threats + 1]_vars

\* Two events were created on the same day, both handlers have finished
\* and the day's total is 1.
C18_Witness ==
    /\ Quiescent
    /\ tm_today = 1
    /\ Len(tm_events) = 2
    /\ tm_stats[1].exists
    /\ tm_stats[1].total_threats = 1
    /\ tm_stats[1].type_count["malware"] + tm_stats[1].type_count["other"] = 1

\* The threshold from which update_daily_statistics counts an indicator as
\* high-confidence.
HighConfidence == 75

\* The entry the loop is about to process is a dict with an IP address.
CurrentEntry ==
    IF /\ ti_run.pc = "running"
       /\ ti_run.i <= Len(ti_run.data)
       /\ ti_run.data[ti_run.i].py = "dict"
       /\ ti_run.data[ti_run.i].ipAddress # ""
    THEN {ti_run.data[ti_run.i]}
    ELSE {}

\* C19 as stated: a ThreatEvent is emitted for an entry only when its IP is
\* newly seen and the entry is high-confidence; an entry whose IP already
\* has a row emits no event and adds no row.
C19_EventOnlyNewAndHighConfidence ==
    [][\A item \in CurrentEntry :
          /\ ti_events' # ti_events
                 => /\ ~ti_rows[item.ipAddress].exists
                    /\ item.abuseConfidencePercentage >= HighConfidence
          /\ ti_rows[item.ipAddress].exists
                 => /\ ti_events' = ti_events
                    /\ \A ip \in IpAddresses :
                           ti_rows'[ip].exists = ti_rows[ip].exists]_vars

\* C19 amended: a ThreatEvent is emitted for an entry exactly when its row
\* was newly created by get_or_create and saved, whatever its confidence,
\* with severity high above 90 and medium otherwise; an entry whose IP
\* already has a row updates that single row, emits no event and adds no
\* row; rows are never removed.
C19_EventForEveryNewlyCreatedRow ==
    [][/\ \A item \in CurrentEntry :
             LET ip == item.ipAddress
                 confidence == item.abuseConfidencePercentage
                 event == [ip |-> ip, event_type |-> "blacklist_detection",
                           severity |-> IF confidence > 90 THEN "high"
                                        ELSE "medium"]
             IN  /\ ti_events' # ti_events
                        => /\ ~ti_rows[ip].exists
                           /\ ti_rows'[ip].exists
                           /\ ti_events' = Append(ti_events, event)
                 /\ (~ti_rows[ip].exists /\ ti_run'.errors = ti_run.errors)
                        => /\ ti_rows'[ip] = [exists |-> TRUE,
                                              abuse_confidence |-> confidence]
                           /\ ti_events' = Append(ti_events, event)
                 /\ ti_rows[ip].exists
                        => /\ ti_events' = ti_events
                           /\ ti_rows'[ip].exists
                           /\ \A other \in IpAddresses \ {ip} :
                                  ti_rows'[other] = ti_rows[other]
       /\ CurrentEntry = {} => (ti_events' = ti_events /\ ti_rows' = ti_rows)
       /\ \A ip \in IpAddresses : ti_rows[ip].exists => ti_rows'[ip].exists]_vars

\* A run that only updated existing rows has returned True, and the one
\* event on record was emitted for an entry of confidence 30.
C19_Witness ==
    /\ ti_run.pc = "returned"
    /\ ti_run.result = "True"
    /\ ti_run.updated_count >= 1
    /\ ti_run.created_count = 0
    /\ Len(ti_events) = 1
    /\ ti_events[1].severity = "medium"
    /\ ti_rows[ti_events[1].ip].abuse_confidence = 30

\* C20: when processing one item of a fetched blacklist raises an error,
\* the item is skipped, the loop goes on to the next item, and the run
\* returns True once the batch is through.
C20_ItemErrorDoesNotAbortBatch ==
    [][/\ (ti_run.pc = "running" /\ ti_run.i <= Len(ti_run.data))
           => (ti_run'.pc = "running" /\ ti_run'.i = ti_run.i + 1)
       /\ (ti_run.pc = "running" /\ ti_run'.pc # "running")
           => (ti_run'.pc = "returned" /\ ti_run'.result = "True")]_vars

\* C21: the scan list returned to a user contains no scan owned by another
\* user, and a request for the detail of a scan owned by another user is
\* answered with 403 or 404 and carries no scan.
C21_ScansIsolatedBetweenUsers ==
    /\ api_response.action = "list"
           => \A pk \in api_response.results :
                  api_scans[pk].user = api_response.user
    /\ (/\ api_response.action = "retrieve"
        /\ api_response.pk \in DOMAIN api_scans
        /\ api_scans[api_response.pk].user # api_response.user)
           => /\ api_response.status_code \in {403, 404}
              /\ api_response.results = {}

\* userB asked for the detail of an existing scan of userA and got 404.
C21_Witness ==
    /\ api_response.action = "retrieve"
    /\ api_response.user = "userB"
    /\ api_response.pk \in DOMAIN api_scans
    /\ api_scans[api_response.pk] = [user |-> "userA", deleted |-> FALSE]
    /\ api_response.status_code = 404
    /\ \E pk \in DOMAIN api_scans : api_scans[pk].user = "userB"

\* C22: within one window at most 5 POST requests of one client to
\* /api/auth/ are passed on to the view, and a request answered with 429
\* is not passed on.
C22_AtMostFiveAuthPostsReachView ==
    \A c \in ClientIds, w \in Windows : rl_passed[c][w] <= AuthLimit

\* A request is handed to the view in this step.
PassedToView(c, w) == rl_passed'[c][w] = rl_passed[c][w] + 1

\* C28: with requests of one client handled concurrently, a request is
\* allowed only while fewer than 'limit' requests of that client have been
\* allowed in its window.
C28_ConcurrentRequestsStayWithinLimit ==
    [][\A c \in ClientIds, w \in Windows :
          PassedToView(c, w) => rl_passed[c][w] < AuthLimit]_vars

\* C23: once the handlers of concurrently created ScanThreats have all
\* finished, the scan's threat_level is the highest severity among its
\* threats: no handler has overwritten a higher level with a lower one.
C23_ConcurrentThreatsKeepHighestLevel ==
    (/\ \A p \in Procs : st_handler[p].pc = "idle"
     /\ st_rows # <<>>)
        => /\ \E i \in DOMAIN st_rows : st_rows[i] = st_level
           /\ \A i \in DOMAIN st_rows : Rank(st_rows[i]) <= Rank(st_level)

\* C24: each local retry loop of a scan makes at most 3 attempts, sleeps
\* a doubling delay after each failed attempt that is followed by another
\* one, and ends with an error outcome once the 3rd attempt has failed.
C24_RetryLoopsBackOffAndGiveUp ==
    \A loop \in DOMAIN rt_loops :
        LET l == rt_loops[loop]
        IN  /\ l.attempts <= 3
            /\ Len(l.slept) = (IF l.failed >= 3 THEN 2 ELSE l.failed)
            /\ \A k \in DOMAIN l.slept :
                   l.slept[k] = InitialRetryDelay(loop) * 2 ^ (k - 1)
            /\ l.failed = 3 => l.outcome \in {"error", "raised"}

\* C25: after 5 failed login responses for the IP with no successful login
\* and no expiry in between, every further login request from the IP is
\* answered with 403 without reaching the login view.
C25_BlockedAfterFiveFailedLogins ==
    [][\A t \in Threads :
          (/\ bf_logins' = bf_logins + 1
           /\ bf_req'[t] # bf_req[t]
           /\ bf_failed >= BlockAfter)
              => (bf_req'[t].status_code = 403 /\ bf_req'[t].pc = "idle")]_vars

\* C26: after a WebSocket connection has disconnected, its channel is a
\* member of no group: neither of the per-scan groups it subscribed to nor
\* of its per-user group nor of a named channel.
C26_DisconnectLeavesEveryGroup ==
    /\ ws.state = "closed" => ws.groups = {}
    /\ gws.state = "closed" => gws.groups = {}

\* C27: a scan that is completed with a non-clean threat_level, owned by
\* a user who receives security alerts, has exactly one threat
\* notification, however often the ScanResult has been saved since.
C27_OneThreatNotificationPerScan ==
    (/\ nt_scan.status = "completed"
     /\ nt_scan.threat_level # "clean"
     /\ nt_scan.notify_security_alerts)
        => nt_notifications = 1

\* A call of update_threat_data begins in this step.
CallStep == sc_stats'.calls = sc_stats.calls + 1

\* C29: a call attempts a feed update exactly when last_update is unset
\* or at least update_interval old; last_update changes only when an
\* update succeeds; after a failed update the next call attempts again;
\* and a successful update lies at least update_interval after the
\* previous successful one.
C29_SchedulerUpdatesOncePerInterval ==
    [][/\ CallStep
           => (sc_call'.attempted
                  <=> (\/ sc_last_update = NoUpdateYet
                       \/ sc_now - sc_last_update >= update_interval))
       /\ sc_last_update' # sc_last_update
           => (/\ sc_call.pc = "updating"
               /\ sc_call'.result = "True"
               /\ sc_last_update' = sc_now
               /\ sc_last_update # NoUpdateYet
                     => sc_now - sc_last_update >= update_interval)
       /\ (sc_call.pc = "updating" /\ sc_call'.result = "False")
           => (/\ sc_last_update' = sc_last_update
               /\ (\/ sc_last_update' = NoUpdateYet
                   \/ sc_now' - sc_last_update' >= update_interval))]_vars

\* One update has failed and two have succeeded, the second of them begun
\* and finished two intervals after the scheduler was built.
C29_Witness ==
    /\ sc_stats.failures >= 1
    /\ sc_stats.successes = 2
    /\ sc_call.result = "True"
    /\ sc_last_update = sc_call.started
    /\ sc_last_update = 2 * update_interval

\* C30: however many times process_scan_results_to_threats runs, two runs
\* at the same time included, each ScanResult has at most one ThreatEvent
\* created from it.
C30_AtMostOneEventPerScan ==
    \A id \in RecentScans : ps_events[id] <= 1

====
